---- MODULE Spec2Model ----
(***************************************************************************)
(* A model of the core pipeline of local_academic: the LLM gateway         *)
(* (services/ollamaService.ts), the PDF cache and the text extraction      *)
(* (services/storageService.ts) and the handlers of App.tsx that use them. *)
(***************************************************************************)
EXTENDS Integers, Sequences, FiniteSets, TLC

VARIABLES
    \* ---- LLM gateway (ollamaService.ts) ----
    preferredProvider,  \* module-level preference: "auto" | "ollama" | "gemini"
    envKey,             \* process.env.GEMINI_API_KEY is a non-empty string
    viteKey,            \* import.meta.env.VITE_GEMINI_API_KEY is a non-empty string
    gpc,                \* position of the running generateAIResponse call
    gmode,              \* the preference that call read at its start
    glog,               \* network contacts of the call, in order
    gprobe,             \* what the probe of backend A answered ("none" before)
    gAans,              \* what backend A answered to the request of the call
    gstatus,            \* "pending" | "returned" | "raised"
    gvalue,             \* the string the call returned
    gerror,             \* the error the call raised
    gBans,              \* what backend B answered to the request of the call
    \* ---- text extraction (storageService.ts, extractTextFromPdf) ----
    xpc,                \* position of the running extractTextFromPdf call
    xpdf,               \* the PDF the blob holds
    xi,                 \* the loop variable i
    xtext,              \* the local fullText
    xvisited,           \* the pages asked of pdf.getPage, in order
    xstatus,            \* "pending" | "returned" | "raised"
    xresult,            \* the string the call returned
    \* ---- PDF cache (storageService.ts) and its use in App.tsx ----
    store,              \* the object store pdf_cache: paper id -> blob
    cput,               \* history: per id, the blob of the last save not yet deleted
    cres,               \* the outcome of the last cache operation
    cachedPdfIds,       \* React state: the ids the UI takes as cached
    isDownloadingPdf,   \* React state: id -> download running
    savedPapers,        \* React state, mirrored to localStorage: the library
    papers,             \* React state: the search results
    dl,                 \* per id, the position of handleDownloadPdf
    del,                \* per id, the position of handleDeletePdf
    loadpc,             \* the getCachedPdfIds() of the mount effect and its end
    epc,                \* position of the running enrichPapersWithPdfContent
    ecaller,            \* the handler that called it
    ein,                \* its argument papersToEnrich
    ecached,            \* the cachedPdfIds its closure holds
    eget,               \* per paper done, what getPdfFromCache answered
    eout,               \* per paper done, the paper it returns
    \* ---- prompt builders (ollamaService.ts) and the content of App.tsx ----
    built,              \* the last call of a builder: its arguments and result
    \* ---- search (paperService.ts and App.tsx) ----
    query,              \* React state: the text of the search box
    totalResults,       \* React state: the total the last search reported
    isSearching,        \* React state: a handleSearch is running
    isLoadingMore,      \* React state: a handleLoadMore is running
    stasks,             \* the handleSearch calls waiting for searchPapers
    ltasks,             \* the handleLoadMore calls waiting for searchPapers
    svariant,           \* which paperService.ts the build holds
    backend,            \* what the search API has for a query
    scalls,             \* history: the last two searchPapers calls that ended
    \* ---- analyses (App.tsx) ----
    analyses,           \* React state: paper id -> AnalysisResult
    visibleColumns,     \* React state: the columns of the table
    atasks,             \* the triggerSingleAnalysis calls that have not ended
    \* ---- the session (App.tsx) ----
    xruns,              \* history: per id, the extractTextFromPdf runs so far
    chatHistory,        \* React state: the messages of the chat panel
    isChatLoading,      \* React state: a handleChatSubmit is running
    ctask,              \* the handleChatSubmit call waiting for its answer
    csent               \* history: the messages of the last chat request

gwVars == <<preferredProvider, envKey, viteKey, gpc, gmode, glog, gprobe,
            gAans, gstatus, gvalue, gerror, gBans>>

exVars == <<xpc, xpdf, xi, xtext, xvisited, xstatus, xresult>>

cacheVars == <<store, cput, cres>>

appVars == <<cachedPdfIds, isDownloadingPdf, savedPapers, papers, dl, del,
             loadpc, epc, ecaller, ein, ecached, eget, eout>>

promptVars == <<built>>

searchVars == <<query, totalResults, isSearching, isLoadingMore, stasks, ltasks,
                svariant, backend, scalls>>

analysisVars == <<analyses, visibleColumns, atasks>>

sessionVars == <<xruns, chatHistory, isChatLoading, ctask, csent>>

\* What of the session a search leaves alone.
searchKeeps == <<xruns, isChatLoading, ctask, csent>>

vars == <<gwVars, exVars, cacheVars, appVars, promptVars, searchVars,
          analysisVars, sessionVars>>

----------------------------------------------------------------------------
\* Bounds of the model
MaxTextLen == 2      \* longest backend answer, in characters
MaxPages == 17       \* longest PDF, in pages
NumPapers == 1       \* papers of the catalogue
NumKeys == 2         \* keys of the cache when its operations are called directly

\* Characters: "s" is a white space character, "x" any other character.
Chars == {"s", "x"}

RECURSIVE TextsUpTo(_)
TextsUpTo(n) ==
    IF n = 0 THEN {<<>>}
    ELSE LET shorter == TextsUpTo(n - 1)
         IN  shorter \cup {Append(t, c) : t \in {u \in shorter : Len(u) = n - 1}, c \in Chars}

Texts == TextsUpTo(MaxTextLen)

\* String.prototype.trim: white space removed at both ends.
RECURSIVE TrimStart(_)
TrimStart(t) == IF t # <<>> /\ Head(t) = "s" THEN TrimStart(Tail(t)) ELSE t

RECURSIVE TrimEnd(_)
TrimEnd(t) ==
    IF t # <<>> /\ t[Len(t)] = "s" THEN TrimEnd(SubSeq(t, 1, Len(t) - 1)) ELSE t

Trim(t) == TrimEnd(TrimStart(t))

----------------------------------------------------------------------------
\* What the network can answer.

\* GET /api/tags of backend A: fetch resolves with ok, resolves with a
\* non-2xx status, or rejects.
ProbeAnswers == {"ok", "notok", "reject"}

\* POST /api/chat of backend A. "reject": fetch rejects; "http": non-2xx;
\* "badjson": response.json() rejects; "nomessage": the body has no message
\* object; "message": a body {message: {content}}.
OllamaAnswers ==
    [kind : {"reject", "http", "badjson", "nomessage"}, content : {<<>>}]
      \cup [kind : {"message"}, content : Texts]

\* POST generateContent of backend B. The 2xx bodies: "nocandidates" (no
\* candidates field), "emptycandidates" (candidates: []), "nocontent"
\* (candidates[0] without content), "noparts" (content without a parts
\* array), "emptyparts" (parts: []), "text" (parts[0].text).
GeminiAnswers ==
    [kind : {"reject", "http", "badjson", "nocandidates", "emptycandidates",
             "nocontent", "noparts", "emptyparts"}, text : {<<>>}]
      \cup [kind : {"text"}, text : Texts]

\* No answer yet.
NoAnswerA == [kind |-> "none", content |-> <<>>]
NoAnswerB == [kind |-> "none", text |-> <<>>]

----------------------------------------------------------------------------
\* checkAIConnection().ollama : response.ok, false when fetch rejects.
OllamaStatus(answer) == answer = "ok"

\* checkAIConnection().gemini : the module constant GEMINI_API_KEY is set.
GeminiStatus == envKey

\* The credential test of generateAIResponse.
GeminiKeyConfigured == envKey \/ viteKey

\* sendOllamaRequest: the outcome for an answer of backend A.
SendOllamaRequest(a) ==
    CASE a.kind = "reject"    -> [ok |-> FALSE, value |-> <<>>, error |-> "ollamaFetch"]
      [] a.kind = "http"      -> [ok |-> FALSE, value |-> <<>>, error |-> "ollamaHttp"]
      [] a.kind = "badjson"   -> [ok |-> FALSE, value |-> <<>>, error |-> "ollamaParse"]
      [] a.kind = "nomessage" -> [ok |-> FALSE, value |-> <<>>, error |-> "ollamaParse"]
      [] a.kind = "message"   -> [ok |-> TRUE, value |-> Trim(a.content), error |-> ""]

\* sendGeminiRequest: the outcome for an answer of backend B.
SendGeminiRequest(b) ==
    CASE b.kind = "reject"  -> [ok |-> FALSE, value |-> <<>>, error |-> "geminiFetch"]
      [] b.kind = "http"    -> [ok |-> FALSE, value |-> <<>>, error |-> "geminiHttp"]
      [] b.kind = "badjson" -> [ok |-> FALSE, value |-> <<>>, error |-> "geminiParse"]
      [] b.kind = "noparts" -> [ok |-> FALSE, value |-> <<>>, error |-> "geminiParse"]
      [] b.kind = "text"    -> [ok |-> TRUE, value |-> b.text, error |-> ""]
      [] OTHER              -> [ok |-> TRUE, value |-> <<>>, error |-> ""]

----------------------------------------------------------------------------
\* generateAIResponse, one action per await.

Returned(v) == /\ gpc' = "done" /\ gstatus' = "returned" /\ gvalue' = v
               /\ gerror' = ""

Raised(e) == /\ gpc' = "done" /\ gstatus' = "raised" /\ gvalue' = <<>>
             /\ gerror' = e

Pending(pc) == /\ gpc' = pc /\ gstatus' = "pending" /\ gvalue' = <<>>
               /\ gerror' = ""

\* FallbackToGemini without the credential test.
FallbackWithoutKeyTest == Pending("sendB")

\* "Fallback to Gemini": the request goes to backend B when a key is
\* configured, else the call raises the no-service error.
FallbackToGemini ==
    IF GeminiKeyConfigured THEN Pending("sendB") ELSE Raised("noService")

SetPreferredProvider(p) ==
    /\ preferredProvider' = p
    /\ p # preferredProvider
    /\ UNCHANGED <<envKey, viteKey, gpc, gmode, glog, gprobe, gAans,
                   gstatus, gvalue, gerror, gBans>>
    /\ UNCHANGED <<exVars, cacheVars, appVars,
                   promptVars, searchVars, analysisVars, sessionVars>>

\* GenerateStart sending to backend B in forced mode without the test of
\* the credential.
GenerateStartKeyUntested ==
    /\ gpc = "idle"
    /\ gmode' = preferredProvider
    /\ glog' = <<>>
    /\ gprobe' = "none"
    /\ gAans' = NoAnswerA
    /\ gBans' = NoAnswerB
    /\ CASE preferredProvider = "ollama" -> Pending("sendA")
         [] preferredProvider = "gemini" -> Pending("sendB")
         [] OTHER -> Pending("probe")
    /\ UNCHANGED <<preferredProvider, envKey, viteKey>>
    /\ UNCHANGED <<exVars, cacheVars, appVars,
                   promptVars, searchVars, analysisVars, sessionVars>>

\* The call starts and reads the preference.
GenerateStart ==
    /\ gpc = "idle"
    /\ gmode' = preferredProvider
    /\ glog' = <<>>
    /\ gprobe' = "none"
    /\ gAans' = NoAnswerA
    /\ gBans' = NoAnswerB
    /\ CASE preferredProvider = "ollama" -> Pending("sendA")
         [] preferredProvider = "gemini" ->
              IF ~envKey /\ ~viteKey THEN Raised("geminiKeyMissing")
              ELSE Pending("sendB")
         [] OTHER -> Pending("probe")
    /\ UNCHANGED <<preferredProvider, envKey, viteKey>>
    /\ UNCHANGED <<exVars, cacheVars, appVars,
                   promptVars, searchVars, analysisVars, sessionVars>>

\* Auto mode: await checkAIConnection().
GenerateProbe(answer) ==
    /\ gpc = "probe"
    /\ glog' = Append(glog, "probeA")
    /\ IF OllamaStatus(answer)
       THEN Pending("sendA")
       ELSE FallbackToGemini
    /\ gprobe' = answer
    /\ UNCHANGED <<preferredProvider, envKey, viteKey, gmode, gAans, gBans>>
    /\ UNCHANGED <<exVars, cacheVars, appVars,
                   promptVars, searchVars, analysisVars, sessionVars>>

\* GenerateOllama without the try/catch of auto mode: the error of backend A
\* is propagated in every mode.
GenerateOllamaUncaught(a) ==
    /\ gpc = "sendA"
    /\ glog' = Append(glog, "reqA")
    /\ LET r == SendOllamaRequest(a)
       IN  IF r.ok THEN Returned(r.value) ELSE Raised(r.error)
    /\ gAans' = a
    /\ UNCHANGED <<preferredProvider, envKey, viteKey, gmode, gprobe, gBans>>
    /\ UNCHANGED <<exVars, cacheVars, appVars,
                   promptVars, searchVars, analysisVars, sessionVars>>

\* GenerateOllama retrying backend A once more before it falls back.
GenerateOllamaRetry(a) ==
    /\ gpc = "sendA"
    /\ glog' = Append(glog, "reqA")
    /\ LET r == SendOllamaRequest(a)
       IN  IF r.ok THEN Returned(r.value)
           ELSE IF gmode = "ollama" THEN Raised(r.error)
           ELSE IF Len(glog) < 2 THEN Pending("sendA")
           ELSE FallbackToGemini
    /\ gAans' = a
    /\ UNCHANGED <<preferredProvider, envKey, viteKey, gmode, gprobe, gBans>>
    /\ UNCHANGED <<exVars, cacheVars, appVars,
                   promptVars, searchVars, analysisVars, sessionVars>>

\* await sendOllamaRequest(messages): returned in both modes; a failure is
\* propagated in forced mode and caught in auto mode.
GenerateOllama(a) ==
    /\ gpc = "sendA"
    /\ glog' = Append(glog, "reqA")
    /\ LET r == SendOllamaRequest(a)
       IN  IF r.ok THEN Returned(r.value)
           ELSE IF gmode = "ollama" THEN Raised(r.error) ELSE FallbackToGemini
    /\ gAans' = a
    /\ UNCHANGED <<preferredProvider, envKey, viteKey, gmode, gprobe, gBans>>
    /\ UNCHANGED <<exVars, cacheVars, appVars,
                   promptVars, searchVars, analysisVars, sessionVars>>

\* GenerateGemini swallowing the error of backend B into an empty answer.
GenerateGeminiSwallow(b) ==
    /\ gpc = "sendB"
    /\ glog' = Append(glog, "reqB")
    /\ gBans' = b
    /\ LET r == SendGeminiRequest(b)
       IN  IF r.ok THEN Returned(r.value) ELSE Returned(<<>>)
    /\ UNCHANGED <<preferredProvider, envKey, viteKey, gmode, gprobe, gAans>>
    /\ UNCHANGED <<exVars, cacheVars, appVars,
                   promptVars, searchVars, analysisVars, sessionVars>>

\* await sendGeminiRequest(messages).
GenerateGemini(b) ==
    /\ gpc = "sendB"
    /\ glog' = Append(glog, "reqB")
    /\ gBans' = b
    /\ LET r == SendGeminiRequest(b)
       IN  IF r.ok THEN Returned(r.value) ELSE Raised(r.error)
    /\ UNCHANGED <<preferredProvider, envKey, viteKey, gmode, gprobe, gAans>>
    /\ UNCHANGED <<exVars, cacheVars, appVars,
                   promptVars, searchVars, analysisVars, sessionVars>>

\* The caller has the outcome; the next call may start.
GenerateDone ==
    /\ gpc = "done"
    /\ gpc' = "idle"
    /\ gmode' = "none"
    /\ glog' = <<>>
    /\ gprobe' = "none"
    /\ gAans' = NoAnswerA
    /\ gstatus' = "pending"
    /\ gvalue' = <<>>
    /\ gerror' = ""
    /\ gBans' = NoAnswerB
    /\ UNCHANGED <<preferredProvider, envKey, viteKey>>
    /\ UNCHANGED <<exVars, cacheVars, appVars,
                   promptVars, searchVars, analysisVars, sessionVars>>

----------------------------------------------------------------------------
\* Text extraction: extractTextFromPdf (storageService.ts).

\* "Limit to first 15 pages".
PageCap == 15

Min(a, b) == IF a < b THEN a ELSE b

RECURSIVE SumSeq(_)
SumSeq(q) == IF q = <<>> THEN 0 ELSE Head(q) + SumSeq(Tail(q))

\* The text items of a page, each given by its length in characters.
ItemChoices == {<<>>, <<3, 4>>, <<48>>, <<49>>}

\* A PDF as pdf.js sees it: loads is FALSE when blob.arrayBuffer() or
\* getDocument rejects; every page holds the text items `items`; failAt is
\* the page whose getPage or getTextContent rejects (0: none does).
CorruptPdf == [loads |-> FALSE, numPages |-> 1, items |-> <<>>, failAt |-> 0]

Pdfs ==
    {CorruptPdf} \cup
    {[loads |-> TRUE, numPages |-> n, items |-> it, failAt |-> f] :
        n \in 1..MaxPages, it \in ItemChoices, f \in 0..MaxPages}

\* A string made by extraction is kept as the sequence of its page segments,
\* each with the page it comes from and its length; <<>> is the empty string.
StrLen(t) == SumSeq([k \in 1..Len(t) |-> t[k].len])

\* items.map(item => item.str).join(' '): the items and one space between
\* two of them.
JoinLen(items) ==
    IF items = <<>> THEN 0 ELSE SumSeq(items) + (Len(items) - 1)

\* `${pageText}\n\n` of page i.
PageSegment(pdf, i) == [page |-> i, len |-> JoinLen(pdf.items) + 2]

\* maxPages without the cap.
UncappedMaxPages(pdf) == pdf.numPages

\* const maxPages = Math.min(pdf.numPages, 15)
PdfMaxPages(pdf) == Min(pdf.numPages, PageCap)

\* A catch block that returns what was read so far.
CatchReturnsPartial(textSoFar) == textSoFar

\* catch (error) { return ""; }
CatchReturn(textSoFar) == <<>>

\* The whole of extractTextFromPdf as a function of the PDF.
ExtractTextFromPdf(pdf) ==
    IF ~pdf.loads THEN CatchReturn(<<>>)
    ELSE IF pdf.failAt \in 1..PdfMaxPages(pdf)
         THEN CatchReturn([k \in 1..(pdf.failAt - 1) |-> PageSegment(pdf, k)])
         ELSE [k \in 1..PdfMaxPages(pdf) |-> PageSegment(pdf, k)]

\* extractTextFromPdf(blob) is called.
ExtractStart(pdf) ==
    /\ xpc = "idle"
    /\ xpc' = "load"
    /\ xpdf' = pdf
    /\ xi' = 0
    /\ xtext' = <<>>
    /\ xvisited' = <<>>
    /\ xstatus' = "pending"
    /\ xresult' = <<>>
    /\ UNCHANGED <<gwVars, cacheVars, appVars,
                   promptVars, searchVars, analysisVars, sessionVars>>

\* await blob.arrayBuffer(); await loadingTask.promise; let fullText = ''.
ExtractLoad ==
    /\ xpc = "load"
    /\ IF xpdf.loads
       THEN /\ xpc' = "page"
            /\ xi' = 1
            /\ xtext' = <<>>
            /\ UNCHANGED <<xstatus, xresult>>
       ELSE /\ xpc' = "done"
            /\ xstatus' = "returned"
            /\ xresult' = CatchReturn(xtext)
            /\ UNCHANGED <<xi, xtext>>
    /\ UNCHANGED <<xpdf, xvisited>>
    /\ UNCHANGED <<gwVars, cacheVars, appVars,
                   promptVars, searchVars, analysisVars, sessionVars>>

\* One turn of the loop: getPage(i), getTextContent(), fullText += ...
ExtractPage ==
    /\ xpc = "page"
    /\ xi <= PdfMaxPages(xpdf)
    /\ xvisited' = Append(xvisited, xi)
    /\ IF xpdf.failAt = xi
       THEN /\ xpc' = "done"
            /\ xstatus' = "returned"
            /\ xresult' = CatchReturn(xtext)
            /\ UNCHANGED <<xi, xtext>>
       ELSE /\ xtext' = Append(xtext, PageSegment(xpdf, xi))
            /\ xi' = xi + 1
            /\ UNCHANGED <<xpc, xstatus, xresult>>
    /\ UNCHANGED xpdf
    /\ UNCHANGED <<gwVars, cacheVars, appVars,
                   promptVars, searchVars, analysisVars, sessionVars>>

\* The loop is over: return fullText.
ExtractReturn ==
    /\ xpc = "page"
    /\ xi > PdfMaxPages(xpdf)
    /\ xpc' = "done"
    /\ xstatus' = "returned"
    /\ xresult' = xtext
    /\ UNCHANGED <<xpdf, xi, xtext, xvisited>>
    /\ UNCHANGED <<gwVars, cacheVars, appVars,
                   promptVars, searchVars, analysisVars, sessionVars>>

\* The caller has the text; the next call may start.
ExtractDone ==
    /\ xpc = "done"
    /\ xpc' = "idle"
    /\ xpdf' = CorruptPdf
    /\ xi' = 0
    /\ xtext' = <<>>
    /\ xvisited' = <<>>
    /\ xstatus' = "pending"
    /\ xresult' = <<>>
    /\ UNCHANGED <<gwVars, cacheVars, appVars,
                   promptVars, searchVars, analysisVars, sessionVars>>

----------------------------------------------------------------------------
\* The PDF cache: the IndexedDB object store pdf_cache (storageService.ts).

Ids == 1..NumPapers

\* The keys of the object store are paper ids (keys of pdf_cache).
Keys == 1..NumKeys

\* The blobs a download can bring: a body that is no PDF, a one-page PDF
\* whose text has 50 characters, and one whose text has 51.
Pdf50 == [loads |-> TRUE, numPages |-> 1, items |-> <<48>>, failAt |-> 0]
Pdf51 == [loads |-> TRUE, numPages |-> 1, items |-> <<49>>, failAt |-> 0]
Blobs == {CorruptPdf, Pdf50, Pdf51}

EmptyStore == [k \in {} |-> CorruptPdf]

\* store.add(blob, paperId): an existing key is kept.
StoreAdd(st, id, blob) ==
    [k \in DOMAIN st \cup {id} |-> IF k \in DOMAIN st THEN st[k] ELSE blob]

\* savePdfToCache: store.put(blob, paperId).
SavePdfToCache(st, id, blob) ==
    [k \in DOMAIN st \cup {id} |-> IF k = id THEN blob ELSE st[k]]

\* getPdfFromCache: resolve(result ? result as Blob : null); a Blob is an
\* object, so every stored value is truthy.
GetPdfFromCache(st, id) ==
    IF id \in DOMAIN st THEN [kind |-> "blob", blob |-> st[id]]
    ELSE [kind |-> "null", blob |-> CorruptPdf]

\* deletePdfFromCache: store.delete(paperId).
DeletePdfFromCache(st, id) == [k \in DOMAIN st \ {id} |-> st[k]]

\* getCachedPdfIds: store.getAllKeys().
GetCachedPdfIds(st) == DOMAIN st

\* The promise of a cache operation is rejected when openDB() rejects or the
\* request fires onerror.
Rejected == [kind |-> "reject", blob |-> CorruptPdf]

NoResult == [op |-> "none", id |-> 0, fault |-> FALSE, res |-> Rejected]

----------------------------------------------------------------------------
\* The cache operations called directly, in any order (CacheSpec).

CachePut(id, blob, fault) ==
    /\ store' = IF fault THEN store ELSE SavePdfToCache(store, id, blob)
    /\ cput' = IF fault THEN cput ELSE [k \in DOMAIN cput \cup {id} |->
                                          IF k = id THEN blob ELSE cput[k]]
    /\ cres' = [op |-> "put", id |-> id, fault |-> fault,
                res |-> IF fault THEN Rejected
                        ELSE [kind |-> "void", blob |-> CorruptPdf]]
    /\ UNCHANGED <<gwVars, exVars, appVars,
                   promptVars, searchVars, analysisVars, sessionVars>>

CacheGet(id, fault) ==
    /\ cres' = [op |-> "get", id |-> id, fault |-> fault,
                res |-> IF fault THEN Rejected ELSE GetPdfFromCache(store, id)]
    /\ UNCHANGED <<store, cput>>
    /\ UNCHANGED <<gwVars, exVars, appVars,
                   promptVars, searchVars, analysisVars, sessionVars>>

CacheDelete(id, fault) ==
    /\ store' = IF fault THEN store ELSE DeletePdfFromCache(store, id)
    /\ cput' = IF fault THEN cput ELSE [k \in DOMAIN cput \ {id} |-> cput[k]]
    /\ cres' = [op |-> "delete", id |-> id, fault |-> fault,
                res |-> IF fault THEN Rejected
                        ELSE [kind |-> "void", blob |-> CorruptPdf]]
    /\ UNCHANGED <<gwVars, exVars, appVars,
                   promptVars, searchVars, analysisVars, sessionVars>>

----------------------------------------------------------------------------
\* App.tsx: the papers, the library and the handlers that use the cache.

\* The paper with id i as the search client returns it: no fullText.
CataloguePaper(i) ==
    [id |-> i, title |-> i, authors |-> i, abstract |-> i, pdfUrl |-> TRUE,
     fullText |-> <<>>]

Catalogue == [i \in Ids |-> CataloguePaper(i)]

\* text.length > 50
MinFullTextLen == 50

IsSaved(id) == \E k \in 1..Len(savedPapers) : savedPapers[k].id = id

Without(list, id) ==
    LET keep == {k \in 1..Len(list) : list[k].id # id}
        \* the k-th kept index, in order
        nth[k \in 1..Cardinality(keep)] ==
            CHOOSE j \in keep : Cardinality({m \in keep : m < j}) = k - 1
    IN  [k \in 1..Cardinality(keep) |-> list[nth[k]]]

IdleTask == [pc |-> "idle", blob |-> CorruptPdf]

\* No handleChatSubmit is waiting.
NoChat == [pc |-> "idle", q |-> "", history |-> <<>>, papers |-> <<>>,
           cached |-> {}]

\* The mount effect: getCachedPdfIds().then(ids => setCachedPdfIds(new Set(ids)))
\* and its catch.
LoadCachedIds(fault) ==
    /\ loadpc = "loading"
    /\ loadpc' = IF fault THEN "failed" ELSE "done"
    /\ cachedPdfIds' = IF fault THEN cachedPdfIds ELSE GetCachedPdfIds(store)
    /\ UNCHANGED <<isDownloadingPdf, savedPapers, papers, dl, del, epc,
                   ecaller, ein, ecached, eget, eout>>
    /\ UNCHANGED <<gwVars, exVars, cacheVars,
                   promptVars, searchVars, analysisVars, sessionVars>>

\* handleSearch, as far as the papers go: the result list replaces them.
HandleSearch(result) ==
    /\ papers' = result
    /\ papers # result
    /\ chatHistory' = <<>>
    /\ UNCHANGED <<cachedPdfIds, isDownloadingPdf, savedPapers, dl, del,
                   loadpc, epc, ecaller, ein, ecached, eget, eout>>
    /\ UNCHANGED <<gwVars, exVars, cacheVars,
                   promptVars, searchVars, analysisVars, searchKeeps>>

\* An un-save that also drops the cached PDF of the paper.
ToggleSaveDropsPdf(paper) ==
    /\ savedPapers' = IF IsSaved(paper.id) THEN Without(savedPapers, paper.id)
                      ELSE Append(savedPapers, paper)
    /\ store' = IF IsSaved(paper.id) THEN DeletePdfFromCache(store, paper.id)
                ELSE store
    /\ UNCHANGED <<cput, cres>>
    /\ UNCHANGED <<cachedPdfIds, isDownloadingPdf, papers, dl, del, loadpc,
                   epc, ecaller, ein, ecached, eget, eout>>
    /\ UNCHANGED <<gwVars, exVars,
                   promptVars, searchVars, analysisVars, sessionVars>>

\* toggleSavePaper(paper)
ToggleSavePaper(paper) ==
    /\ savedPapers' = IF IsSaved(paper.id) THEN Without(savedPapers, paper.id)
                      ELSE Append(savedPapers, paper)
    /\ UNCHANGED <<cachedPdfIds, isDownloadingPdf, papers, dl, del, loadpc,
                   epc, ecaller, ein, ecached, eget, eout>>
    /\ UNCHANGED <<gwVars, exVars, cacheVars,
                   promptVars, searchVars, analysisVars, sessionVars>>

\* The papers the UI shows: the search results and the library.
Shown ==
    {papers[k] : k \in 1..Len(papers)} \cup
    {savedPapers[k] : k \in 1..Len(savedPapers)}

\* handleDownloadPdf(paper) up to the first fetch. The button is there for a
\* saved paper that has a pdfUrl and is not taken as cached, and is disabled
\* while the download runs.
HandleDownloadPdf(paper) ==
    /\ paper \in Shown
    /\ IsSaved(paper.id)
    /\ paper.id \notin cachedPdfIds
    /\ ~isDownloadingPdf[paper.id]
    /\ paper.pdfUrl
    /\ isDownloadingPdf' = [isDownloadingPdf EXCEPT ![paper.id] = TRUE]
    /\ dl' = [dl EXCEPT ![paper.id] = [pc |-> "direct", blob |-> CorruptPdf]]
    /\ UNCHANGED <<cachedPdfIds, savedPapers, papers, del, loadpc, epc,
                   ecaller, ein, ecached, eget, eout>>
    /\ UNCHANGED <<gwVars, exVars, cacheVars,
                   promptVars, searchVars, analysisVars, sessionVars>>

\* Attempt 1: fetch(paper.pdfUrl); ok is FALSE when fetch rejects or the
\* status is not 2xx.
DownloadDirect(id, ok, blob) ==
    /\ dl[id].pc = "direct"
    /\ dl' = [dl EXCEPT ![id] = IF ok THEN [pc |-> "save", blob |-> blob]
                                 ELSE [pc |-> "proxy", blob |-> CorruptPdf]]
    /\ UNCHANGED <<cachedPdfIds, isDownloadingPdf, savedPapers, papers, del,
                   loadpc, epc, ecaller, ein, ecached, eget, eout>>
    /\ UNCHANGED <<gwVars, exVars, cacheVars,
                   promptVars, searchVars, analysisVars, sessionVars>>

\* Attempt 2: fetch through the CORS proxy; its failure ends the handler in
\* the catch and the finally.
DownloadProxy(id, ok, blob) ==
    /\ dl[id].pc = "proxy"
    /\ IF ok
       THEN /\ dl' = [dl EXCEPT ![id] = [pc |-> "save", blob |-> blob]]
            /\ UNCHANGED isDownloadingPdf
       ELSE /\ dl' = [dl EXCEPT ![id] = IdleTask]
            /\ isDownloadingPdf' = [isDownloadingPdf EXCEPT ![id] = FALSE]
    /\ UNCHANGED <<cachedPdfIds, savedPapers, papers, del, loadpc, epc,
                   ecaller, ein, ecached, eget, eout>>
    /\ UNCHANGED <<gwVars, exVars, cacheVars,
                   promptVars, searchVars, analysisVars, sessionVars>>

\* A save that marks the paper as cached before the cache has answered.
DownloadSaveEager(id, fault) ==
    /\ dl[id].pc = "save"
    /\ store' = IF fault THEN store ELSE SavePdfToCache(store, id, dl[id].blob)
    /\ cachedPdfIds' = cachedPdfIds \cup {id}
    /\ dl' = [dl EXCEPT ![id] = IdleTask]
    /\ isDownloadingPdf' = [isDownloadingPdf EXCEPT ![id] = FALSE]
    /\ cput' = IF fault THEN cput ELSE [k \in DOMAIN cput \cup {id} |->
                                          IF k = id THEN dl[id].blob
                                          ELSE cput[k]]
    /\ cres' = [op |-> "put", id |-> id, fault |-> fault,
                res |-> IF fault THEN Rejected
                        ELSE [kind |-> "void", blob |-> CorruptPdf]]
    /\ UNCHANGED <<savedPapers, papers, del, loadpc, epc, ecaller, ein,
                   ecached, eget, eout>>
    /\ UNCHANGED <<gwVars, exVars,
                   promptVars, searchVars, analysisVars, sessionVars>>

\* await savePdfToCache(paper.id, blob); setCachedPdfIds(add); finally.
DownloadSave(id, fault) ==
    /\ dl[id].pc = "save"
    /\ IF fault
       THEN UNCHANGED <<store, cachedPdfIds>>
       ELSE /\ store' = SavePdfToCache(store, id, dl[id].blob)
            /\ cachedPdfIds' = cachedPdfIds \cup {id}
    /\ dl' = [dl EXCEPT ![id] = IdleTask]
    /\ isDownloadingPdf' = [isDownloadingPdf EXCEPT ![id] = FALSE]
    /\ cput' = IF fault THEN cput ELSE [k \in DOMAIN cput \cup {id} |->
                                          IF k = id THEN dl[id].blob
                                          ELSE cput[k]]
    /\ cres' = [op |-> "put", id |-> id, fault |-> fault,
                res |-> IF fault THEN Rejected
                        ELSE [kind |-> "void", blob |-> CorruptPdf]]
    /\ UNCHANGED <<savedPapers, papers, del, loadpc, epc, ecaller, ein,
                   ecached, eget, eout>>
    /\ UNCHANGED <<gwVars, exVars,
                   promptVars, searchVars, analysisVars, sessionVars>>

\* handleDeletePdf(paperId) up to the await: the confirm() dialog. The
\* button is there for a paper taken as cached.
HandleDeletePdf(id, confirmed) ==
    /\ id \in cachedPdfIds
    /\ \E paper \in Shown : paper.id = id
    /\ del[id] = "idle"
    /\ del' = [del EXCEPT ![id] = IF confirmed THEN "deleting" ELSE "idle"]
    /\ UNCHANGED <<cachedPdfIds, isDownloadingPdf, savedPapers, papers, dl,
                   loadpc, epc, ecaller, ein, ecached, eget, eout>>
    /\ UNCHANGED <<gwVars, exVars, cacheVars,
                   promptVars, searchVars, analysisVars, sessionVars>>

\* fullText: undefined on the saved paper with this id.
DropFullText(list, id) ==
    [k \in 1..Len(list) |->
        IF list[k].id = id THEN [list[k] EXCEPT !.fullText = <<>>] ELSE list[k]]

\* A delete that takes the paper off cachedPdfIds whatever the cache answers.
HandleDeletePdfDoneEager(id, fault) ==
    /\ del[id] = "deleting"
    /\ del' = [del EXCEPT ![id] = "idle"]
    /\ store' = IF fault THEN store ELSE DeletePdfFromCache(store, id)
    /\ cachedPdfIds' = cachedPdfIds \ {id}
    /\ savedPapers' = IF fault THEN savedPapers
                      ELSE DropFullText(savedPapers, id)
    /\ cput' = IF fault THEN cput ELSE [k \in DOMAIN cput \ {id} |-> cput[k]]
    /\ cres' = [op |-> "delete", id |-> id, fault |-> fault,
                res |-> IF fault THEN Rejected
                        ELSE [kind |-> "void", blob |-> CorruptPdf]]
    /\ UNCHANGED <<isDownloadingPdf, papers, dl, loadpc, epc, ecaller, ein,
                   ecached, eget, eout>>
    /\ UNCHANGED <<gwVars, exVars,
                   promptVars, searchVars, analysisVars, sessionVars>>

\* await deletePdfFromCache(paperId) and what follows it, or the catch.
HandleDeletePdfDone(id, fault) ==
    /\ del[id] = "deleting"
    /\ del' = [del EXCEPT ![id] = "idle"]
    /\ IF fault
       THEN UNCHANGED <<store, cachedPdfIds, savedPapers>>
       ELSE /\ store' = DeletePdfFromCache(store, id)
            /\ cachedPdfIds' = cachedPdfIds \ {id}
            /\ savedPapers' = DropFullText(savedPapers, id)
    /\ cput' = IF fault THEN cput ELSE [k \in DOMAIN cput \ {id} |-> cput[k]]
    /\ cres' = [op |-> "delete", id |-> id, fault |-> fault,
                res |-> IF fault THEN Rejected
                        ELSE [kind |-> "void", blob |-> CorruptPdf]]
    /\ UNCHANGED <<isDownloadingPdf, papers, dl, loadpc, epc, ecaller, ein,
                   ecached, eget, eout>>
    /\ UNCHANGED <<gwVars, exVars,
                   promptVars, searchVars, analysisVars, sessionVars>>

----------------------------------------------------------------------------
\* enrichPapersWithPdfContent (App.tsx) and its callers.

NoGet == [kind |-> "skip", blob |-> CorruptPdf]

\* The test of the extracted text with >= in place of >.
LongEnoughInclusive(text) == StrLen(text) >= MinFullTextLen

\* if (text.length > 50)
LongEnough(text) == StrLen(text) > MinFullTextLen

\* if (cachedPdfIds.has(p.id) && !p.fullText)
NeedsText(p, cached) == p.id \in cached /\ p.fullText = <<>>

\* The map callback returning { id, fullText } in place of { ...p, fullText }:
\* the abstract (0 stands for none) is lost.
EnrichPaperLosesAbstract(p, cached, got) ==
    IF NeedsText(p, cached) /\ got.kind = "blob"
          /\ LongEnough(ExtractTextFromPdf(got.blob))
    THEN [p EXCEPT !.fullText = ExtractTextFromPdf(got.blob),
                   !.abstract = 0]
    ELSE p

\* The body of the map callback for paper p, given what getPdfFromCache
\* answered (got is NoGet when it was not called).
EnrichPaper(p, cached, got) ==
    IF NeedsText(p, cached) /\ got.kind = "blob"
          /\ LongEnough(ExtractTextFromPdf(got.blob))
    THEN [p EXCEPT !.fullText = ExtractTextFromPdf(got.blob)]
    ELSE p

\* The history of paper id after one more extractTextFromPdf(blob) of the
\* map callback: "once" after the first text long enough to be attached,
\* "again" when the text of the paper had been attached before.
Ran(runs, id, text) ==
    [runs EXCEPT ![id] = IF @ = "none"
                         THEN IF LongEnough(text) THEN "once" ELSE "none"
                         ELSE "again"]

\* The history after the map callback of paper p, given what
\* getPdfFromCache answered.
RanPaper(runs, p, cached, got) ==
    IF NeedsText(p, cached) /\ got.kind = "blob"
    THEN Ran(runs, p.id, ExtractTextFromPdf(got.blob))
    ELSE runs

\* The call: the closure holds the cachedPdfIds of the render.
EnrichStart(caller, list) ==
    /\ epc = "idle"
    /\ list # <<>>
    /\ epc' = "run"
    /\ ecaller' = caller
    /\ ein' = list
    /\ ecached' = cachedPdfIds
    /\ eget' = <<>>
    /\ eout' = <<>>
    /\ UNCHANGED <<cachedPdfIds, isDownloadingPdf, savedPapers, papers, dl,
                   del, loadpc>>
    /\ UNCHANGED <<gwVars, exVars, cacheVars,
                   promptVars, searchVars, analysisVars, sessionVars>>

\* handleChatSubmit: the first five papers of the view (search results or
\* library).
ChatEnrich(list) == EnrichStart("chat", SubSeq(list, 1, Min(5, Len(list))))

\* triggerSynthesis: the first five search results.
SynthesisEnrich == EnrichStart("synthesis", SubSeq(papers, 1, Min(5, Len(papers))))

\* triggerSingleAnalysis: the paper alone, when it is taken as cached and has
\* no fullText.
AnalysisEnrich(paper) ==
    /\ paper.id \in cachedPdfIds /\ paper.fullText = <<>>
    /\ EnrichStart("analysis", <<paper>>)

\* handleWritePaper: the whole library.
WriteEnrich == EnrichStart("write", savedPapers)

\* One paper of the map is done: its getPdfFromCache (when called) has
\* answered and extraction has run.
EnrichStep(fault) ==
    /\ epc = "run"
    /\ Len(eout) < Len(ein)
    /\ LET p == ein[Len(eout) + 1]
           got == IF ~NeedsText(p, ecached) THEN NoGet
                  ELSE IF fault THEN Rejected
                  ELSE GetPdfFromCache(store, p.id)
       IN  /\ fault => NeedsText(p, ecached)
           /\ eget' = Append(eget, got)
           /\ eout' = Append(eout, EnrichPaper(p, ecached, got))
           /\ xruns' = RanPaper(xruns, p, ecached, got)
    /\ UNCHANGED <<chatHistory, isChatLoading, ctask, csent>>
    /\ UNCHANGED <<cachedPdfIds, isDownloadingPdf, savedPapers, papers, dl,
                   del, loadpc, epc, ecaller, ein, ecached>>
    /\ UNCHANGED <<gwVars, exVars, cacheVars,
                   promptVars, searchVars, analysisVars>>

\* Promise.all has resolved; handleWritePaper stores the enriched library.
EnrichFinish ==
    /\ epc = "run"
    /\ Len(eout) = Len(ein)
    /\ savedPapers' = IF ecaller = "write" THEN eout ELSE savedPapers
    /\ epc' = "idle"
    /\ ecaller' = "none"
    /\ ein' = <<>>
    /\ ecached' = {}
    /\ eget' = <<>>
    /\ eout' = <<>>
    /\ UNCHANGED <<cachedPdfIds, isDownloadingPdf, papers, dl, del, loadpc>>
    /\ UNCHANGED <<gwVars, exVars, cacheVars,
                   promptVars, searchVars, analysisVars, sessionVars>>

\* The whole of enrichPapersWithPdfContent(list) when nothing else runs in
\* between; faults are the places of the list whose getPdfFromCache rejects.
EnrichAll(list, cached, st, faults) ==
    [k \in 1..Len(list) |->
        EnrichPaper(list[k], cached,
                    IF ~NeedsText(list[k], cached) THEN NoGet
                    ELSE IF k \in faults THEN Rejected
                    ELSE GetPdfFromCache(st, list[k].id))]

\* The history after the whole of enrichPapersWithPdfContent(list), from
\* place k on.
RECURSIVE RanAll(_, _, _, _, _, _)
RanAll(runs, list, cached, st, faults, k) ==
    IF k > Len(list) THEN runs
    ELSE RanAll(RanPaper(runs, list[k], cached,
                         IF ~NeedsText(list[k], cached) THEN NoGet
                         ELSE IF k \in faults THEN Rejected
                         ELSE GetPdfFromCache(st, list[k].id)),
                list, cached, st, faults, k + 1)

\* handleChatSubmit, triggerSynthesis and triggerSingleAnalysis enrich the
\* papers they send to the model and keep the result to themselves; their
\* chat and their extraction runs are followed step by step in ChatSpec and
\* EnrichSpec.
HandleChatSubmit(list) ==
    /\ list # <<>>
    /\ epc = "idle"
    /\ UNCHANGED <<gwVars, exVars, cacheVars, appVars,
                   promptVars, searchVars, analysisVars, sessionVars>>

TriggerSynthesis ==
    /\ papers # <<>>
    /\ epc = "idle"
    /\ UNCHANGED <<gwVars, exVars, cacheVars, appVars,
                   promptVars, searchVars, analysisVars, sessionVars>>

TriggerSingleAnalysis(paper) ==
    /\ epc = "idle"
    /\ UNCHANGED <<gwVars, exVars, cacheVars, appVars,
                   promptVars, searchVars, analysisVars, sessionVars>>

\* handleWritePaper: setSavedPapers(enrichedSavedPapers).
HandleWritePaper(faults) ==
    /\ savedPapers # <<>>
    /\ epc = "idle"
    /\ faults \subseteq {k \in 1..Len(savedPapers) :
                            NeedsText(savedPapers[k], cachedPdfIds)}
    /\ savedPapers' = EnrichAll(savedPapers, cachedPdfIds, store, faults)
    /\ UNCHANGED <<cachedPdfIds, isDownloadingPdf, papers, dl, del, loadpc,
                   epc, ecaller, ein, ecached, eget, eout>>
    /\ UNCHANGED <<gwVars, exVars, cacheVars,
                   promptVars, searchVars, analysisVars, sessionVars>>

\* The page is reloaded: the store and the library stay, the rest starts
\* anew and the mount effect runs again.
Reload ==
    /\ cachedPdfIds' = {}
    /\ isDownloadingPdf' = [i \in Ids |-> FALSE]
    /\ papers' = <<>>
    /\ dl' = [i \in Ids |-> IdleTask]
    /\ del' = [i \in Ids |-> "idle"]
    /\ loadpc' = "loading"
    /\ epc' = "idle"
    /\ ecaller' = "none"
    /\ ein' = <<>>
    /\ ecached' = {}
    /\ eget' = <<>>
    /\ eout' = <<>>
    /\ xruns' = [i \in Ids |-> "none"]
    /\ chatHistory' = <<>>
    /\ isChatLoading' = FALSE
    /\ ctask' = NoChat
    /\ csent' = <<>>
    /\ UNCHANGED savedPapers
    /\ UNCHANGED <<gwVars, exVars, cacheVars,
                   promptVars, searchVars, analysisVars>>

----------------------------------------------------------------------------
\* The prompt builders of ollamaService.ts.


\* A prompt is kept as the sequence of its pieces: a literal of the source
\* (lit), the abstract of a paper (abstract, 0 for none), a piece of extracted
\* text (text), the n-th message of a history (n, 0 for none) or the list of
\* papers a builder formats (papers). The Turkish literals are written
\* without their diacritics.
Piece(lit, abstract, text, n, ps) ==
    [lit |-> lit, abstract |-> abstract, text |-> text, n |-> n, papers |-> ps]

Lit(s) == Piece(s, 0, <<>>, 0, <<>>)

AbstractOf(p) == Piece("", p.abstract, <<>>, 0, <<>>)

TextPiece(t) == Piece("", 0, t, 0, <<>>)

\* text.substring(0, n) of a string kept as its segments.
RECURSIVE Substring(_, _)
Substring(t, n) ==
    IF t = <<>> \/ n <= 0 THEN <<>>
    ELSE IF Head(t).len <= n
         THEN <<Head(t)>> \o Substring(Tail(t), n - Head(t).len)
         ELSE <<[Head(t) EXCEPT !.len = n]>>

\* p.fullText.length > 200
ContentMinLen == 200

\* p.fullText.substring(0, 10000)
ContentBudget == 10000

\* paperToAnalyze.fullText.substring(0, 5000)
AnalysisBudget == 5000

\* getPaperContent without the test of the length.
GetPaperContentAnyLength(p) ==
    IF p.fullText # <<>>
    THEN <<Lit("(Tam Metin Icerigi Mevcut - Ilk Kisim):\n"),
           TextPiece(Substring(p.fullText, ContentBudget)), Lit("...")>>
    ELSE <<Lit("(Ozet):\n"), AbstractOf(p)>>

\* getPaperContent(p)
GetPaperContent(p) ==
    IF p.fullText # <<>> /\ StrLen(p.fullText) > ContentMinLen
    THEN <<Lit("(Tam Metin Icerigi Mevcut - Ilk Kisim):\n"),
           TextPiece(Substring(p.fullText, ContentBudget)), Lit("...")>>
    ELSE <<Lit("(Ozet):\n"), AbstractOf(p)>>

\* contentToAnalyze of triggerSingleAnalysis.
AnalysisContent(p) ==
    IF p.fullText # <<>>
    THEN <<Lit("(Tam Metin):\n"),
           TextPiece(Substring(p.fullText, AnalysisBudget))>>
    ELSE <<AbstractOf(p)>>

\* A message of a conversation.
Msg(role, content) == [role |-> role, content |-> content]

\* papers.slice(0, n)
Slice(list, n) == SubSeq(list, 1, Min(n, Len(list)))

\* `[${i + 1}] ${p.title} (${p.year}): ${getPaperContent(p)}` of the papers
\* of a context, and the lines of a source of the review: the number, what
\* of the paper is written out, and its content.
ContextEntry(p, i) ==
    [n |-> i, id |-> p.id, title |-> p.title, authors |-> 0,
     content |-> GetPaperContent(p)]

SourceEntry(p, i) ==
    [n |-> i, id |-> p.id, title |-> p.title, authors |-> p.authors,
     content |-> GetPaperContent(p)]

\* analyzePaperWithOllama(abstract, promptType): the messages it sends.
AnalyzePaperWithOllama(content, promptType) ==
    <<Msg("system", <<Lit(promptType)>>),
      Msg("user", <<Lit("Metin: ")>> \o content \o <<Lit(promptType)>>)>>

\* synthesizeFindings(query, papers): the messages it sends.
SynthesizeFindings(q, list) ==
    LET topPapers == Slice(list, 4)
        context == [i \in 1..Len(topPapers) |-> ContextEntry(topPapers[i], i)]
    IN  <<Msg("system", <<Lit("synthesis")>>),
          Msg("user", <<Lit("Arastirma Sorusu: "), Lit(q),
                        Piece("Bulunan Makaleler:", 0, <<>>, 0, context)>>)>>

\* chatWithPapers handing the history on as it is.
ChatKeepsSystemMessages(q, list, history) ==
    LET contextPapers == Slice(list, 5)
        context ==
            [i \in 1..Len(contextPapers) |-> ContextEntry(contextPapers[i], i)]
    IN  <<Msg("system", <<Piece("chat", 0, <<>>, 0, context)>>)>>
        \o history
        \o <<Msg("user", <<Lit(q)>>)>>

\* chatWithPapers sending the conversation without its system message.
ChatWithPapersNoPrompt(q, list, history) ==
    SelectSeq(history, LAMBDA m : m.role # "system") \o <<Msg("user", <<Lit(q)>>)>>

\* chatWithPapers(query, papers, history): the messages it sends.
ChatWithPapers(q, list, history) ==
    LET contextPapers == Slice(list, 5)
        context ==
            [i \in 1..Len(contextPapers) |-> ContextEntry(contextPapers[i], i)]
        conversationHistory == SelectSeq(history, LAMBDA m : m.role # "system")
    IN  <<Msg("system", <<Piece("chat", 0, <<>>, 0, context)>>)>>
        \o conversationHistory
        \o <<Msg("user", <<Lit(q)>>)>>

\* const limit = hasFullText ? 6 : 15
ReviewCapFullText == 6

ReviewCap == 15

\* The limit taken from the first paper alone.
ReviewLimitByFirstPaper(list) ==
    IF list # <<>> /\ list[1].fullText # <<>> THEN ReviewCapFullText
    ELSE ReviewCap

\* hasFullText = papers.some(p => p.fullText) and the limit it gives.
ReviewLimit(list) ==
    IF \E k \in 1..Len(list) : list[k].fullText # <<>> THEN ReviewCapFullText
    ELSE ReviewCap

\* generateLiteratureReview(topic, papers): the messages it sends. The n of
\* a source is the number of its MAKALE_ID: ref${i + 1}.
GenerateLiteratureReview(topic, list) ==
    LET contextPapers == Slice(list, ReviewLimit(list))
        context ==
            [i \in 1..Len(contextPapers) |-> SourceEntry(contextPapers[i], i)]
    IN  <<Msg("system", <<Lit("review")>>),
          Msg("user", <<Lit("Konu: "), Lit(topic),
                        Piece("Kullanilacak Kaynak Listesi:", 0, <<>>, 0,
                              context)>>)>>

\* The first message of role system: messages.find(m => m.role === 'system').
FirstSystem(messages) ==
    messages[CHOOSE k \in 1..Len(messages) :
                /\ messages[k].role = "system"
                /\ \A j \in 1..(k - 1) : messages[j].role # "system"]

HasSystem(messages) == \E k \in 1..Len(messages) : messages[k].role = "system"

\* The contents of the request of sendGeminiRequest(messages).
GeminiContents(messages) ==
    LET kept == SelectSeq(messages, LAMBDA m : m.role # "system")
        contents ==
            [k \in 1..Len(kept) |->
                [role |-> IF kept[k].role = "assistant" THEN "model" ELSE "user",
                 text |-> kept[k].content]]
    IN  IF HasSystem(messages) /\ Len(contents) > 0
        THEN [contents EXCEPT ![1].text =
                 <<Lit("[SYSTEM: ")>> \o FirstSystem(messages).content
                    \o <<Lit("]\n\n")>> \o @]
        ELSE contents

\* The inputs of the builders: papers with a fullText of these lengths (0: no
\* fullText), lists of them of which at most one carries a fullText, and
\* conversations of any roles.
FullTextLens == {0, 51, 200, 201, 5001, 10001}

PromptPaper(i, len) ==
    [CataloguePaper(i) EXCEPT
        !.fullText = IF len = 0 THEN <<>> ELSE <<[page |-> 1, len |-> len]>>]

PromptLists(m) ==
    {[k \in 1..n |-> PromptPaper(k, IF k = j THEN len ELSE 0)] :
        n \in 1..m, j \in 1..m, len \in FullTextLens}

Roles == {"system", "user", "assistant"}

\* The k-th message of a conversation says k.
Conversation(roles) ==
    [k \in 1..Len(roles) |-> Msg(roles[k], <<Piece("", 0, <<>>, k, <<>>)>>)]

Conversations(m) ==
    {Conversation(roles) : roles \in UNION {[1..n -> Roles] : n \in 0..m}}

Fields == {"summary", "methodology", "outcome"}

NoCall == [fn |-> "none", query |-> "", papers |-> <<>>, history |-> <<>>,
           out |-> <<>>]

Call(fn, q, list, history, out) ==
    [fn |-> fn, query |-> q, papers |-> list, history |-> history, out |-> out]

PromptIdle == built = NoCall

\* triggerSingleAnalysis builds its content and calls analyzePaperWithOllama.
AnalysisCall(p, field) ==
    /\ built = NoCall
    /\ built' = Call("analysis", field, <<p>>, <<>>,
                     AnalyzePaperWithOllama(AnalysisContent(p), field))
    /\ UNCHANGED <<gwVars, exVars, cacheVars, appVars, searchVars, analysisVars, sessionVars>>

SynthesisCall(q, list) ==
    /\ built = NoCall
    /\ built' = Call("synthesis", q, list, <<>>, SynthesizeFindings(q, list))
    /\ UNCHANGED <<gwVars, exVars, cacheVars, appVars, searchVars, analysisVars, sessionVars>>

ChatCall(q, list, history) ==
    /\ built = NoCall
    /\ built' = Call("chat", q, list, history, ChatWithPapers(q, list, history))
    /\ UNCHANGED <<gwVars, exVars, cacheVars, appVars, searchVars, analysisVars, sessionVars>>

ReviewCall(topic, list) ==
    /\ built = NoCall
    /\ built' = Call("review", topic, list, <<>>,
                     GenerateLiteratureReview(topic, list))
    /\ UNCHANGED <<gwVars, exVars, cacheVars, appVars, searchVars, analysisVars, sessionVars>>

\* generateAIResponse hands messages to sendGeminiRequest.
GeminiCall(messages) ==
    /\ built.fn # "gemini"
    /\ built' = Call("gemini", "", <<>>, messages, GeminiContents(messages))
    /\ UNCHANGED <<gwVars, exVars, cacheVars, appVars, searchVars, analysisVars, sessionVars>>

\* The messages a builder has made go to sendGeminiRequest.
GeminiCallBuilt ==
    /\ built.fn \in {"analysis", "synthesis", "chat", "review"}
    /\ GeminiCall(built.out)

\* sendGeminiRequest called with messages of no builder.
GeminiCallDirect(messages) ==
    /\ built = NoCall
    /\ GeminiCall(messages)

\* The call is over.
CallReturn ==
    /\ built # NoCall
    /\ built' = NoCall
    /\ UNCHANGED <<gwVars, exVars, cacheVars, appVars, searchVars, analysisVars, sessionVars>>

SearchIdle ==
    /\ query = <<>>
    /\ totalResults = 0
    /\ isSearching = FALSE
    /\ isLoadingMore = FALSE
    /\ stasks = {}
    /\ ltasks = {}
    /\ svariant = 2
    /\ backend = "clean"
    /\ scalls = <<>>

AnalysisIdle ==
    /\ analyses = <<>>
    /\ visibleColumns = {"summary"}
    /\ atasks = {}

RestIdle == PromptIdle /\ SearchIdle /\ AnalysisIdle

----------------------------------------------------------------------------
\* The search client of paperService.ts.  A text is a sequence of words and
\* of runs of whitespace (Space, the white space of Chars), and includes()
\* is taken word by word.

Space == "s"

\* the words w.length > 2 drops
ShortWords == {"a", "of", "on"}

\* words.join(' ')
Text(words) ==
    [i \in 1..(2 * Len(words) - 1) |->
        IF i % 2 = 1 THEN words[(i + 1) \div 2] ELSE Space]

\* String.prototype.toLowerCase
ToLowerCase(text) ==
    [i \in DOMAIN text |-> IF text[i] = "Caffeine" THEN "caffeine" ELSE text[i]]

\* String.prototype.includes
Includes(text, part) ==
    \E i \in 1..(Len(text) - Len(part) + 1) :
        SubSeq(text, i, i + Len(part) - 1) = part

\* query.replace(/\s+/g, '-')
Dashed(text) == [i \in DOMAIN text |-> IF text[i] = Space THEN "-" ELSE text[i]]

\* Array.prototype.slice(from, to), 0 <= from <= to
ArraySlice(list, from, to) == SubSeq(list, from + 1, Min(to, Len(list)))

PaperId(src, q, n) == [src |-> src, q |-> q, n |-> n]

\* The two files of the fallback samples: the titles are those of the
\* source, and of each abstract the words a query of the model can meet.
MockDatabase(variant) ==
    IF variant = 1
    THEN << [id |-> PaperId("db", <<>>, 1),
             title |-> Text(<<"the", "effects", "of", "caffeine", "on", "sleep",
                              "quality", "and", "architecture">>),
             abstract |-> Text(<<"the", "impact", "of", "high-dose", "caffeine",
                                 "consumption">>),
             citationCount |-> 45, doi |-> "plain", isMock |-> FALSE],
            [id |-> PaperId("db", <<>>, 2),
             title |-> Text(<<"machine", "learning", "approaches", "for",
                              "early", "diabetes", "detection">>),
             abstract |-> Text(<<"a", "novel", "ensemble", "learning",
                                 "framework">>),
             citationCount |-> 12, doi |-> "plain", isMock |-> FALSE],
            [id |-> PaperId("db", <<>>, 3),
             title |-> Text(<<"urban", "green", "spaces", "and", "mental",
                              "health", "a", "systematic", "review">>),
             abstract |-> Text(<<"a", "systematic", "review", "of", "50",
                                 "longitudinal", "studies">>),
             citationCount |-> 156, doi |-> "none", isMock |-> FALSE] >>
    ELSE << [id |-> PaperId("db", <<>>, 1),
             title |-> Text(<<"the", "effects", "of", "caffeine", "on", "sleep",
                              "quality", "and", "architecture">>),
             abstract |-> Text(<<"this", "systematic", "review", "examines",
                                 "the", "effects", "of", "caffeine", "on",
                                 "sleep", "quality">>),
             citationCount |-> 145, doi |-> "plain", isMock |-> TRUE],
            [id |-> PaperId("db", <<>>, 2),
             title |-> Text(<<"machine", "learning", "approaches", "for",
                              "early", "diabetes", "detection">>),
             abstract |-> Text(<<"diabetes", "mellitus", "is", "a", "chronic",
                                 "disease">>),
             citationCount |-> 89, doi |-> "plain", isMock |-> TRUE],
            [id |-> PaperId("db", <<>>, 3),
             title |-> Text(<<"urban", "green", "spaces", "and", "mental",
                              "health", "a", "systematic", "review">>),
             abstract |-> Text(<<"mental", "health", "disorders", "are", "a",
                                 "growing", "global", "concern">>),
             citationCount |-> 312, doi |-> "plain", isMock |-> TRUE] >>

\* Math.floor(Math.random() * 500): the two ends of its range
RandomCounts == {0, 499}

TitleTemplates == 8

\* generateMockPapers(query, count, startIndex).  The first file writes a
\* paper from the query and the index and draws its citation count; the
\* second one copies the sample at the index and gives it an id of its own.
GenerateMockPapers(variant, q, count, startIndex, rnd) ==
    LET database == MockDatabase(variant) IN
    [i \in 1..count |->
        LET idx == startIndex + i - 1 IN
        IF variant = 1
        THEN [id |-> PaperId("gen", Dashed(q), idx),
              title |-> <<"template", ToString(idx % TitleTemplates)>> \o q
                            \o <<"vol", ToString(idx)>>,
              abstract |-> <<"mock", "abstract", "about">> \o q,
              citationCount |-> rnd,
              doi |-> "plain",
              isMock |-> FALSE]
        ELSE [database[(idx % Len(database)) + 1]
                 EXCEPT !.id = PaperId("gen", Dashed(q), idx),
                        !.isMock = TRUE]]

\* getValidDOI(doiInput): a DOI is missing ("none"), well formed ("plain"),
\* well formed behind "doi:" or "https://doi.org/" ("prefixed"), or
\* ill formed ("bad"); null is "none".
GetValidDOI(doiInput) ==
    CASE doiInput = "plain" -> "plain"
      [] doiInput = "prefixed" -> "plain"
      [] OTHER -> "none"

MinAbstractLen == 50

\* The filters of the transform: item.abstract && item.abstract.length > 50,
\* and in the second file a valid DOI.
KeepsItem(variant, item) ==
    /\ item.abstractLen > MinAbstractLen
    /\ variant = 2 => GetValidDOI(item.doi) # "none"

\* The paper the transform makes of an item of the API.
PaperOfItem(variant, item) ==
    [id |-> PaperId("s2", <<>>, item.paperId),
     title |-> <<"s2", ToString(item.paperId)>>,
     abstract |-> <<"abstract", ToString(item.abstractLen)>>,
     citationCount |-> 0,
     doi |-> IF variant = 2 THEN GetValidDOI(item.doi) ELSE item.doi,
     isMock |-> FALSE]

TotalMockResults == 45

\* The catch block: the samples that match, filled up to 45 and sliced.
Fallback(variant, q, lowerQuery, offset, limit, rnd) ==
    LET queryWords == SelectSeq(lowerQuery,
                          LAMBDA w : w # Space /\ w \notin ShortWords)
        matches(paper) ==
            \/ Includes(paper.title, lowerQuery)
            \/ Includes(paper.abstract, lowerQuery)
            \/ \E i \in DOMAIN queryWords :
                  Includes(paper.title, <<queryWords[i]>>)
        found == SelectSeq(MockDatabase(variant), matches)
        matchingPapers ==
            IF Len(found) < TotalMockResults
            THEN found \o GenerateMockPapers(variant, q,
                              TotalMockResults - Len(found), Len(found), rnd)
            ELSE found
    IN  [status |-> "resolved", fetched |-> TRUE, mode |-> "fallback",
         papers |-> ArraySlice(matchingPapers, offset, offset + limit),
         total |-> Len(matchingPapers)]

\* The try block after the fetch: what it returns, or that it throws.  A
\* total of 0 is also a total the answer does not carry.
Attempt(variant, offset, resp) ==
    IF resp.kind # "ok"
    THEN [status |-> "thrown", fetched |-> TRUE, mode |-> "live",
          papers |-> <<>>, total |-> 0]
    ELSE IF resp.data = <<>>
    THEN [status |-> "resolved", fetched |-> TRUE, mode |-> "live",
          papers |-> <<>>,
          total |-> IF offset = 0 /\ resp.total = 0 THEN 0 ELSE resp.total]
    ELSE LET kept == SelectSeq(resp.data, LAMBDA item : KeepsItem(variant, item))
             list == [i \in DOMAIN kept |-> PaperOfItem(variant, kept[i])]
         IN  [status |-> "resolved", fetched |-> TRUE, mode |-> "live",
              papers |-> list,
              total |-> IF resp.total # 0 THEN resp.total ELSE Len(list)]

\* A non-OK status thrown outside the try block (a variant).
SearchPapersStatusUncaught(variant, q, offset, limit, resp, rnd) ==
    LET lowerQuery == Trim(ToLowerCase(q))
        attempt == Attempt(variant, offset, resp)
    IN  IF lowerQuery = <<>>
        THEN [status |-> "resolved", fetched |-> FALSE, mode |-> "blank",
              papers |-> <<>>, total |-> 0]
        ELSE IF attempt.status = "thrown" /\ resp.kind # "status"
        THEN Fallback(variant, q, lowerQuery, offset, limit, rnd)
        ELSE attempt

\* searchPapers(query, offset, limit), given what the API answers (resp) and
\* what Math.random draws (rnd).
SearchPapers(variant, q, offset, limit, resp, rnd) ==
    LET lowerQuery == Trim(ToLowerCase(q))
        attempt == Attempt(variant, offset, resp)
    IN  IF lowerQuery = <<>>
        THEN [status |-> "resolved", fetched |-> FALSE, mode |-> "blank",
              papers |-> <<>>, total |-> 0]
        ELSE IF attempt.status = "thrown"
        THEN Fallback(variant, q, lowerQuery, offset, limit, rnd)
        ELSE attempt

\* The search API.  A backend has a ranking of BackendMatches items for every
\* query, all of them fit ("clean") or some with a short or missing abstract
\* or DOI ("mixed"), or nothing at all ("empty").
BackendMatches == 21

Backends == {"clean", "mixed", "empty"}

Item(b, k) ==
    IF b = "clean"
    THEN [paperId |-> k, abstractLen |-> MinAbstractLen + 1, doi |-> "plain"]
    ELSE [paperId |-> k,
          abstractLen |-> CASE k % 6 = 0 -> 0
                            [] k % 6 = 3 -> MinAbstractLen
                            [] OTHER -> MinAbstractLen + 1,
          doi |-> CASE k % 5 = 0 -> "none"
                    [] k % 5 = 1 -> "bad"
                    [] k % 5 = 2 -> "prefixed"
                    [] OTHER -> "plain"]

Ranking(b) ==
    IF b = "empty" THEN <<>> ELSE [k \in 1..BackendMatches |-> Item(b, k)]

\* What the fetch of a page can end with: the fetch rejects ("reject"), the
\* status is not OK ("status"), the body is no JSON ("badjson") or is not of
\* the shape the transform reads ("badshape"), or the page of the ranking.
Failures == {"reject", "status", "badjson", "badshape"}

Responses(b, offset, limit) ==
    {[kind |-> k, data |-> <<>>, total |-> 0] : k \in Failures}
    \cup {[kind |-> "ok",
           data |-> ArraySlice(Ranking(b), offset, offset + limit),
           total |-> t] : t \in {Len(Ranking(b)), 0}}

\* What Math.random can give a call: it is drawn only by the first file.
Draws(variant) == IF variant = 1 THEN RandomCounts ELSE {0}

\* The queries, offsets and limits of the model.
Queries ==
    { <<>>, <<Space>>,
      <<"Caffeine", Space, "sleep">>,
      <<"effects", Space, "of", Space, "caffeine">>,
      <<"systematic", Space, "review">>,
      <<Space, "quantum">> }

PageSize == 10

Offsets == {0, PageSize, TotalMockResults - 1, TotalMockResults}

Limits == {3, PageSize}

\* The record of a call that ended: its arguments, what the API answered if
\* it was asked, and what the call resolved to.
CallRecord(q, offset, limit, resp, out) ==
    [query |-> q, offset |-> offset, limit |-> limit,
     answer |-> IF out.fetched THEN resp.kind ELSE "none",
     status |-> out.status, fetched |-> out.fetched, mode |-> out.mode,
     papers |-> out.papers, total |-> out.total]

\* The calls searchPapers(q, offset, limit) can end as.
Calls(q, offset, limit) ==
    {CallRecord(q, offset, limit, resp,
                SearchPapers(svariant, q, offset, limit, resp, rnd)) :
        resp \in Responses(backend, offset, limit), rnd \in Draws(svariant)}

\* The last two calls that ended.
Logged(calls, call) ==
    IF Len(calls) < 2 THEN Append(calls, call) ELSE <<calls[2], call>>

\* searchPapers called on its own.
SearchCall(q, offset, limit) ==
    /\ scalls = <<>>
    /\ \E call \in Calls(q, offset, limit) : scalls' = <<call>>
    /\ UNCHANGED <<query, totalResults, isSearching, isLoadingMore, stasks,
                   ltasks, svariant, backend>>
    /\ UNCHANGED <<gwVars, exVars, cacheVars, appVars, promptVars, analysisVars, sessionVars>>

\* The history is dropped.
SearchForget ==
    /\ scalls # <<>>
    /\ scalls' = <<>>
    /\ UNCHANGED <<query, totalResults, isSearching, isLoadingMore, stasks,
                   ltasks, svariant, backend>>
    /\ UNCHANGED <<gwVars, exVars, cacheVars, appVars, promptVars, analysisVars, sessionVars>>

\* The call made again.
SearchAgain ==
    /\ Len(scalls) = 1
    /\ LET last == scalls[Len(scalls)] IN
       \E call \in Calls(last.query, last.offset, last.limit) :
          scalls' = Logged(scalls, call)
    /\ UNCHANGED <<query, totalResults, isSearching, isLoadingMore, stasks,
                   ltasks, svariant, backend>>
    /\ UNCHANGED <<gwVars, exVars, cacheVars, appVars, promptVars, analysisVars, sessionVars>>

\* The call for the page after the one of the call.
SearchNextPage ==
    /\ Len(scalls) = 1
    /\ LET last == scalls[Len(scalls)] IN
       \E call \in Calls(last.query, last.offset + last.limit, last.limit) :
          scalls' = Logged(scalls, call)
    /\ UNCHANGED <<query, totalResults, isSearching, isLoadingMore, stasks,
                   ltasks, svariant, backend>>
    /\ UNCHANGED <<gwVars, exVars, cacheVars, appVars, promptVars, analysisVars, sessionVars>>

----------------------------------------------------------------------------
\* The analyses of App.tsx: the state `analyses` and the calls of
\* triggerSingleAnalysis that have not ended.

\* the value of a field that was set to undefined
Undefined == "undefined"

\* { paperId, summary: '', methodology: '', outcome: '', isLoading: false }
DefaultAnalysis(id) ==
    [paperId |-> id, summary |-> "", methodology |-> "", outcome |-> "",
     isLoading |-> FALSE]

\* prev[paper.id] || { ...the default }
AnalysisOf(an, id) == IF id \in DOMAIN an THEN an[id] ELSE DefaultAnalysis(id)

\* a string that is neither '' nor undefined
Truthy(value) == value \notin {"", Undefined}

\* analyses[paper.id]?.[field] && analyses[paper.id]?.[field] !== '...'
HasAnalysis(an, id, field) ==
    /\ id \in DOMAIN an
    /\ Truthy(an[id][field])
    /\ an[id][field] # "..."

\* { ...prev, [paper.id]: { ...(prev[paper.id] || default), [field]: value,
\*   isLoading: loading } }
SetAnalysis(an, id, field, value, loading) ==
    [i \in DOMAIN an \cup {id} |->
        IF i = id
        THEN [AnalysisOf(an, id) EXCEPT ![field] = value, !.isLoading = loading]
        ELSE an[i]]

\* isLoading={analysis?.isLoading && !analysis?.[col.key]}: the cell of the
\* field shows the spinner.
CellLoading(an, id, field) ==
    /\ id \in DOMAIN an
    /\ an[id].isLoading
    /\ ~Truthy(an[id][field])

AnalysisTask(id, field, pc) == [id |-> id, field |-> field, pc |-> pc]

\* The part of triggerSingleAnalysis(paper, field) before its first await,
\* called by a handler whose closure holds `closure` as the analyses: the
\* state and the calls in flight it leaves, given those it finds.
StartAnalysis(state, closure, id, field) ==
    IF HasAnalysis(closure, id, field) THEN state
    ELSE [analyses |-> SetAnalysis(state.analyses, id, field, Undefined, TRUE),
          atasks |-> state.atasks \cup {AnalysisTask(id, field, "probe")}]

\* fields.forEach(field => triggerSingleAnalysis(paper, field)), the fields
\* in the order of the columns.
RECURSIVE StartFields(_, _, _, _)
StartFields(state, closure, id, fields) ==
    IF fields = <<>> THEN state
    ELSE StartFields(StartAnalysis(state, closure, id, Head(fields)),
                     closure, id, Tail(fields))

ColumnOrder == <<"summary", "methodology", "outcome">>

\* triggerBatchAnalysis(papersToAnalyze) with the visible columns `columns`
RECURSIVE TriggerBatchAnalysis(_, _, _, _)
TriggerBatchAnalysis(state, closure, list, columns) ==
    IF list = <<>> THEN state
    ELSE TriggerBatchAnalysis(
             StartFields(state, closure, Head(list).id,
                         SelectSeq(ColumnOrder, LAMBDA f : f \in columns)),
             closure, Tail(list), columns)

AnalysisState == [analyses |-> analyses, atasks |-> atasks]

\* What generateAIResponse can return to an analysis: nothing but white
\* space (trimmed to ''), the text '...', or any other text.
Results == {"", "...", "r"}

\* toggleColumn(key): a column shown is hidden unless it is the last one; a
\* column hidden is shown and its field asked for every paper of the results.
ToggleColumn(key) ==
    /\ IF key \in visibleColumns
       THEN /\ visibleColumns' = IF Cardinality(visibleColumns) > 1
                                 THEN visibleColumns \ {key}
                                 ELSE visibleColumns
            /\ UNCHANGED <<analyses, atasks>>
       ELSE LET after == TriggerBatchAnalysis(AnalysisState, analyses, papers,
                                              {key})
            IN  /\ visibleColumns' = visibleColumns \cup {key}
                /\ analyses' = after.analyses
                /\ atasks' = after.atasks
    /\ UNCHANGED <<gwVars, exVars, cacheVars, appVars, promptVars, searchVars, sessionVars>>

\* triggerBatchAnalysis(papers) as handleSearch and handleLoadMore call it
\* on the papers they received, here the papers shown.  Their closure holds
\* the analyses of the render that started them: those of now, or those of
\* before any analysis (stale).
RunBatchAnalysis(stale) ==
    /\ papers # <<>>
    /\ LET after == TriggerBatchAnalysis(AnalysisState,
                        IF stale THEN <<>> ELSE analyses, papers,
                        visibleColumns)
       IN  /\ analyses' = after.analyses
           /\ atasks' = after.atasks
    /\ UNCHANGED visibleColumns
    /\ UNCHANGED <<gwVars, exVars, cacheVars, appVars, promptVars, searchVars, sessionVars>>

\* await checkOllamaConnection(): without a connection the call returns;
\* with one it goes on to the content (the enrichment of the paper changes
\* no state of the App) and to the request.
AnalysisProbed(task, live) ==
    /\ task \in atasks
    /\ task.pc = "probe"
    /\ atasks' = IF live
                 THEN (atasks \ {task})
                          \cup {AnalysisTask(task.id, task.field, "generate")}
                 ELSE atasks \ {task}
    /\ UNCHANGED <<analyses, visibleColumns>>
    /\ UNCHANGED <<gwVars, exVars, cacheVars, appVars, promptVars, searchVars, sessionVars>>

\* analyzePaperWithOllama resolved: the result is written.
AnalysisDone(task, result) ==
    /\ task \in atasks
    /\ task.pc = "generate"
    /\ analyses' = SetAnalysis(analyses, task.id, task.field, result, FALSE)
    /\ atasks' = atasks \ {task}
    /\ UNCHANGED visibleColumns
    /\ UNCHANGED <<gwVars, exVars, cacheVars, appVars, promptVars, searchVars, sessionVars>>

\* analyzePaperWithOllama rejected: the catch block writes to the console.
AnalysisRaised(task) ==
    /\ task \in atasks
    /\ task.pc = "generate"
    /\ atasks' = atasks \ {task}
    /\ UNCHANGED <<analyses, visibleColumns>>
    /\ UNCHANGED <<gwVars, exVars, cacheVars, appVars, promptVars, searchVars, sessionVars>>

----------------------------------------------------------------------------
\* The search handlers of App.tsx.  A handler that awaits searchPapers is a
\* call in flight that holds the query and the offset it sent.  What these
\* handlers do besides is left to the parts that hold it: the view, the
\* selection, the synthesis and the chat they reset, and the analyses and
\* the synthesis they start on the papers received (RunBatchAnalysis), none
\* of which reads or writes the query, the papers shown or their total.

SearchTask(q, offset) == [q |-> q, offset |-> offset, stale |-> FALSE]

\* History: the requests in flight when a search is issued or the search is
\* cleared are no longer the latest.
Superseded(tasks) == {[task EXCEPT !.stale = TRUE] : task \in tasks}

\* the other state of the App, which the search handlers leave alone
libraryVars == <<cachedPdfIds, isDownloadingPdf, savedPapers, dl, del, loadpc,
                 epc, ecaller, ein, ecached, eget, eout>>

\* onChange of the search box
SetQuery(q) ==
    /\ query' = q
    /\ UNCHANGED <<totalResults, isSearching, isLoadingMore, stasks, ltasks,
                   svariant, backend, scalls>>
    /\ UNCHANGED <<gwVars, exVars, cacheVars, appVars, promptVars, analysisVars, sessionVars>>

\* clearSearch()
ClearSearch ==
    /\ query # <<>>
    /\ query' = <<>>
    /\ papers' = <<>>
    /\ totalResults' = 0
    /\ analyses' = <<>>
    /\ chatHistory' = <<>>
    /\ stasks' = Superseded(stasks)
    /\ ltasks' = Superseded(ltasks)
    /\ UNCHANGED <<isSearching, isLoadingMore, svariant,
                   backend, scalls, visibleColumns, atasks>>
    /\ UNCHANGED <<gwVars, exVars, cacheVars, libraryVars, promptVars,
                   searchKeeps>>

\* handleSearch() up to its await
HandleSearchStart ==
    /\ Trim(query) # <<>>
    /\ isSearching' = TRUE
    /\ papers' = <<>>
    /\ totalResults' = 0
    /\ stasks' = Superseded(stasks) \cup {SearchTask(query, 0)}
    /\ ltasks' = Superseded(ltasks)
    /\ chatHistory' = <<>>
    /\ UNCHANGED <<query, isLoadingMore, svariant, backend, scalls>>
    /\ UNCHANGED <<gwVars, exVars, cacheVars, libraryVars, promptVars,
                   analysisVars, searchKeeps>>

\* handleSearch() from its await on: the papers and the total of the
\* response replace those shown (a call that threw would leave them).
HandleSearchDone(task) ==
    /\ task \in stasks
    /\ \E call \in Calls(task.q, 0, PageSize) :
          /\ papers' = IF call.status = "resolved" THEN call.papers ELSE papers
          /\ totalResults' = IF call.status = "resolved" THEN call.total
                             ELSE totalResults
    /\ isSearching' = FALSE
    /\ stasks' = stasks \ {task}
    /\ UNCHANGED <<query, isLoadingMore, ltasks, svariant, backend, scalls>>
    /\ UNCHANGED <<gwVars, exVars, cacheVars, libraryVars, promptVars,
                   analysisVars, sessionVars>>

\* the user asks for more while fewer papers than these are shown
MaxShown == 11

\* handleLoadMore() up to its await.  The button is shown while fewer papers
\* are shown than the total and no search is running.
HandleLoadMore ==
    /\ Len(papers) < MaxShown
    /\ Len(papers) < totalResults
    /\ ~isSearching
    /\ ~isLoadingMore
    /\ isLoadingMore' = TRUE
    /\ ltasks' = ltasks \cup {SearchTask(query, Len(papers))}
    /\ UNCHANGED <<query, totalResults, isSearching, stasks, svariant, backend,
                   scalls>>
    /\ UNCHANGED <<gwVars, exVars, cacheVars, appVars, promptVars, analysisVars, sessionVars>>

\* The papers of a page appended without a look at those shown (a variant).
AppendAllPapers(prev, newPapers) ==
    prev \o newPapers

\* setPapers(prev => [...prev, ...newPapers.filter(p => !existingIds.has(p.id))])
AppendNewPapers(prev, newPapers) ==
    LET existingIds == {prev[i].id : i \in DOMAIN prev}
    IN  prev \o SelectSeq(newPapers, LAMBDA p : p.id \notin existingIds)

\* handleLoadMore() from its await on
HandleLoadMoreDone(task) ==
    /\ task \in ltasks
    /\ \E call \in Calls(task.q, task.offset, PageSize) :
          /\ papers' = IF call.status = "resolved"
                       THEN AppendNewPapers(papers, call.papers)
                       ELSE papers
    /\ isLoadingMore' = FALSE
    /\ ltasks' = ltasks \ {task}
    /\ UNCHANGED <<query, totalResults, isSearching, stasks, svariant, backend,
                   scalls>>
    /\ UNCHANGED <<gwVars, exVars, cacheVars, libraryVars, promptVars,
                   analysisVars, sessionVars>>

----------------------------------------------------------------------------
\* handleChatSubmit of App.tsx, step by step.

\* The questions typed into the chat box.
ChatInputs == {"q1", "q2"}

\* 'Sohbet edebilmek icin once arama yapmali veya kitapliginiza makale
\* eklemelisiniz.'
NoPapersNotice == Msg("assistant", <<Lit("noPapers")>>)

\* 'Uzgunum, bir hata olustu. Lutfen tekrar deneyin.'
ChatApology == Msg("assistant", <<Lit("chatError")>>)

\* { role: 'user', content: currentMessage }
UserMsg(q) == Msg("user", <<Lit(q)>>)

\* The turns the chat panel may hold before the next question.
MaxTurns == 2

\* handleChatSubmit up to its first await: the user message goes into the
\* history; with no paper in the view the notice follows it and the handler
\* returns. list is the papers of the view, search results or library.
HandleChatSubmitStart(q, list) ==
    /\ ~isChatLoading
    /\ Len(chatHistory) + 2 <= 2 * MaxTurns
    /\ IF list = <<>>
       THEN /\ chatHistory' = chatHistory \o <<UserMsg(q), NoPapersNotice>>
            /\ UNCHANGED <<isChatLoading, ctask>>
       ELSE /\ chatHistory' = Append(chatHistory, UserMsg(q))
            /\ isChatLoading' = TRUE
            /\ ctask' = [pc |-> "run", q |-> q, history |-> chatHistory,
                         papers |-> Slice(list, 5), cached |-> cachedPdfIds]
    /\ csent' = <<>>
    /\ UNCHANGED xruns
    /\ UNCHANGED <<gwVars, exVars, cacheVars, appVars,
                   promptVars, searchVars, analysisVars>>

\* The messages chatWithPapers builds for the waiting call, the papers
\* enriched as the cache answers (faults: the places whose getPdfFromCache
\* rejects): chatWithPapers(currentMessage, enrichedPapers,
\* [...chatHistory, userMsg]).
ChatMessages(task, st, faults) ==
    ChatWithPapers(task.q,
                   EnrichAll(task.papers, task.cached, st, faults),
                   Append(task.history, UserMsg(task.q)))

\* The places of the waiting call whose getPdfFromCache can reject.
ChatFaultPlaces ==
    SUBSET {k \in 1..Len(ctask.papers) : NeedsText(ctask.papers[k], ctask.cached)}

\* handleChatSubmit from its first await on: enrichment, the request, and
\* the answer (ok) or the apology of the catch appended to the history.
HandleChatSubmitDone(ok, faults) ==
    /\ ctask.pc = "run"
    /\ faults \in ChatFaultPlaces
    /\ csent' = ChatMessages(ctask, store, faults)
    /\ xruns' = RanAll(xruns, ctask.papers, ctask.cached, store, faults, 1)
    /\ chatHistory' = Append(chatHistory,
                             IF ok THEN Msg("assistant", <<Lit("answer")>>)
                             ELSE ChatApology)
    /\ isChatLoading' = FALSE
    /\ ctask' = NoChat
    /\ UNCHANGED <<gwVars, exVars, cacheVars, appVars,
                   promptVars, searchVars, analysisVars>>

----------------------------------------------------------------------------
\* Initial states and specifications.

ExtractIdle ==
    /\ xpc = "idle"
    /\ xpdf = CorruptPdf
    /\ xi = 0
    /\ xtext = <<>>
    /\ xvisited = <<>>
    /\ xstatus = "pending"
    /\ xresult = <<>>

GatewayStart ==
    /\ preferredProvider = "auto"
    /\ envKey \in BOOLEAN
    /\ viteKey \in BOOLEAN
    /\ gpc = "idle"
    /\ gmode = "none"
    /\ glog = <<>>
    /\ gprobe = "none"
    /\ gAans = NoAnswerA
    /\ gstatus = "pending"
    /\ gvalue = <<>>
    /\ gerror = ""
    /\ gBans = NoAnswerB

GatewayIdle ==
    /\ preferredProvider = "auto"
    /\ envKey = FALSE
    /\ viteKey = FALSE
    /\ gpc = "idle"
    /\ gmode = "none"
    /\ glog = <<>>
    /\ gprobe = "none"
    /\ gAans = NoAnswerA
    /\ gstatus = "pending"
    /\ gvalue = <<>>
    /\ gerror = ""
    /\ gBans = NoAnswerB

CacheIdle ==
    /\ store = EmptyStore
    /\ cput = EmptyStore
    /\ cres = NoResult

\* No extraction has run in the session and the chat is empty.
SessionIdle ==
    /\ xruns = [i \in Ids |-> "none"]
    /\ chatHistory = <<>>
    /\ isChatLoading = FALSE
    /\ ctask = NoChat
    /\ csent = <<>>

AppIdle ==
    /\ cachedPdfIds = {}
    /\ isDownloadingPdf = [i \in Ids |-> FALSE]
    /\ savedPapers = <<>>
    /\ papers = <<>>
    /\ dl = [i \in Ids |-> IdleTask]
    /\ del = [i \in Ids |-> "idle"]
    /\ loadpc = "loading"
    /\ epc = "idle"
    /\ ecaller = "none"
    /\ ein = <<>>
    /\ ecached = {}
    /\ eget = <<>>
    /\ eout = <<>>

\* The gateway: every configuration of the two keys.
Init == GatewayStart /\ ExtractIdle /\ SessionIdle /\ CacheIdle /\ AppIdle /\ RestIdle

Next ==
    \/ \E p \in {"auto", "ollama", "gemini"} : SetPreferredProvider(p)
    \/ GenerateStart
    \/ \E answer \in ProbeAnswers : GenerateProbe(answer)
    \/ \E a \in OllamaAnswers : GenerateOllama(a)
    \/ \E b \in GeminiAnswers : GenerateGemini(b)
    \/ GenerateDone

Spec == Init /\ [][Next]_vars

\* Text extraction: every PDF of Pdfs.
ExtractInit == GatewayIdle /\ ExtractIdle /\ SessionIdle /\ CacheIdle /\ AppIdle /\ RestIdle

ExtractNext ==
    \/ \E pdf \in Pdfs : ExtractStart(pdf)
    \/ ExtractLoad
    \/ ExtractPage
    \/ ExtractReturn
    \/ ExtractDone

ExtractSpec == ExtractInit /\ [][ExtractNext]_vars

\* The cache operations in any order.
CacheInit == GatewayIdle /\ ExtractIdle /\ SessionIdle /\ CacheIdle /\ AppIdle /\ RestIdle

CacheNext ==
    \/ \E id \in Keys, blob \in Blobs, fault \in BOOLEAN : CachePut(id, blob, fault)
    \/ \E id \in Keys, fault \in BOOLEAN : CacheGet(id, fault)
    \/ \E id \in Keys, fault \in BOOLEAN : CacheDelete(id, fault)

CacheSpec == CacheInit /\ [][CacheNext]_vars

\* The callers of the enrichment with search results and a library of up to
\* MaxLibrary papers; the PDF of paper 1 is cached.
MaxLibrary == 7

CallerInit ==
    /\ GatewayIdle /\ ExtractIdle /\ SessionIdle /\ RestIdle
    /\ store = SavePdfToCache(EmptyStore, 1, Pdf51)
    /\ cput = EmptyStore
    /\ cres = NoResult
    /\ cachedPdfIds = {1}
    /\ isDownloadingPdf = [i \in Ids |-> FALSE]
    /\ \E n \in 0..MaxLibrary : savedPapers = [i \in 1..n |-> CataloguePaper(i)]
    /\ \E n \in 0..MaxLibrary : papers = [i \in 1..n |-> CataloguePaper(i)]
    /\ dl = [i \in Ids |-> IdleTask]
    /\ del = [i \in Ids |-> "idle"]
    /\ loadpc = "done"
    /\ epc = "idle"
    /\ ecaller = "none"
    /\ ein = <<>>
    /\ ecached = {}
    /\ eget = <<>>
    /\ eout = <<>>

CallerNext ==
    \/ \E list \in {papers, savedPapers} : ChatEnrich(list)
    \/ SynthesisEnrich
    \/ \E k \in 1..Len(papers) : AnalysisEnrich(papers[k])
    \/ WriteEnrich
    \/ \E fault \in BOOLEAN : EnrichStep(fault)
    \/ EnrichFinish

CallerSpec == CallerInit /\ [][CallerNext]_vars

\* The builders and the adapter of backend B, called with every input of
\* the bounds.
MaxChatPapers == 6

MaxReviewPapers == 16

MaxHistory == 3

PromptInit == GatewayIdle /\ ExtractIdle /\ SessionIdle /\ CacheIdle /\ AppIdle /\ RestIdle

PromptNext ==
    \/ \E len \in FullTextLens, field \in Fields :
          AnalysisCall(PromptPaper(1, len), field)
    \/ \E list \in PromptLists(MaxChatPapers) : SynthesisCall("q", list)
    \/ \E list \in PromptLists(MaxChatPapers),
          history \in Conversations(MaxHistory) : ChatCall("q", list, history)
    \/ \E list \in PromptLists(MaxReviewPapers) : ReviewCall("topic", list)
    \/ \E messages \in Conversations(MaxHistory) : GeminiCallDirect(messages)
    \/ GeminiCallBuilt
    \/ CallReturn

PromptSpec == PromptInit /\ [][PromptNext]_vars

\* searchPapers of either file, called against every backend.
SearchInit ==
    /\ GatewayIdle /\ ExtractIdle /\ SessionIdle /\ CacheIdle /\ AppIdle
    /\ PromptIdle /\ AnalysisIdle
    /\ query = <<>>
    /\ totalResults = 0
    /\ isSearching = FALSE
    /\ isLoadingMore = FALSE
    /\ stasks = {}
    /\ ltasks = {}
    /\ svariant \in {1, 2}
    /\ backend \in Backends
    /\ scalls = <<>>

SearchNext ==
    \/ \E q \in Queries, offset \in Offsets, limit \in Limits :
          SearchCall(q, offset, limit)
    \/ SearchAgain
    \/ SearchNextPage
    \/ SearchForget

SearchSpec == SearchInit /\ [][SearchNext]_vars

\* The search box of the App against every backend, in the build with the
\* second file of the client (the one whose papers carry the pdfUrl and the
\* isMock the App reads).
ResultsInit == SearchInit /\ svariant = 2

ResultQueries == { <<>>, <<"Caffeine", Space, "sleep">>, <<Space, "quantum">> }

ResultsNext ==
    \/ \E q \in ResultQueries : SetQuery(q)
    \/ ClearSearch
    \/ HandleSearchStart
    \/ \E task \in stasks : HandleSearchDone(task)
    \/ HandleLoadMore
    \/ \E task \in ltasks : HandleLoadMoreDone(task)

ResultsSpec == ResultsInit /\ [][ResultsNext]_vars

\* The analyses of the papers of a search that showed the first Analysed
\* samples.
Analysed == 2

AnalysisInit ==
    /\ GatewayIdle /\ ExtractIdle /\ SessionIdle /\ CacheIdle /\ PromptIdle
    /\ AnalysisIdle
    /\ query = <<"systematic", Space, "review">>
    /\ totalResults = 0
    /\ isSearching = FALSE
    /\ isLoadingMore = FALSE
    /\ stasks = {}
    /\ ltasks = {}
    /\ svariant = 2
    /\ backend = "clean"
    /\ scalls = <<>>
    /\ cachedPdfIds = {}
    /\ isDownloadingPdf = [i \in Ids |-> FALSE]
    /\ savedPapers = <<>>
    /\ papers = ArraySlice(MockDatabase(svariant), 0, Analysed)
    /\ dl = [i \in Ids |-> IdleTask]
    /\ del = [i \in Ids |-> "idle"]
    /\ loadpc = "done"
    /\ epc = "idle"
    /\ ecaller = "none"
    /\ ein = <<>>
    /\ ecached = {}
    /\ eget = <<>>
    /\ eout = <<>>

\* the columns the user switches on and off
ToggledColumns == {"summary", "methodology"}

AnalysisNext ==
    \/ \E key \in ToggledColumns : ToggleColumn(key)
    \/ \E stale \in BOOLEAN : RunBatchAnalysis(stale)
    \/ \E task \in atasks, live \in BOOLEAN : AnalysisProbed(task, live)
    \/ \E task \in atasks, result \in Results : AnalysisDone(task, result)
    \/ \E task \in atasks : AnalysisRaised(task)
    \/ ClearSearch

AnalysisSpec == AnalysisInit /\ [][AnalysisNext]_vars

\* The App: a first visit, with an empty store and an empty library.
AppInit == GatewayIdle /\ ExtractIdle /\ SessionIdle /\ CacheIdle /\ AppIdle /\ RestIdle

AppNext ==
    \/ \E fault \in BOOLEAN : LoadCachedIds(fault)
    \/ \E result \in {<<>>, Catalogue} : HandleSearch(result)
    \/ \E paper \in Shown : ToggleSavePaper(paper)
    \/ \E paper \in Shown : HandleDownloadPdf(paper)
    \/ \E id \in Ids, ok \in BOOLEAN, blob \in Blobs : DownloadDirect(id, ok, blob)
    \/ \E id \in Ids, ok \in BOOLEAN, blob \in Blobs : DownloadProxy(id, ok, blob)
    \/ \E id \in Ids, fault \in BOOLEAN : DownloadSave(id, fault)
    \/ \E id \in Ids, confirmed \in BOOLEAN : HandleDeletePdf(id, confirmed)
    \/ \E id \in Ids, fault \in BOOLEAN : HandleDeletePdfDone(id, fault)
    \/ \E list \in {papers, savedPapers} : HandleChatSubmit(list)
    \/ TriggerSynthesis
    \/ \E k \in 1..Len(papers) : TriggerSingleAnalysis(papers[k])
    \/ \E faults \in SUBSET Ids : HandleWritePaper(faults)
    \/ Reload

AppSpec == AppInit /\ [][AppNext]_vars

\* Enrichment, paper by paper, while the library and the cache change: the
\* mount effect is over, the search has answered and PDFs are cached.
EnrichInit ==
    /\ GatewayIdle /\ ExtractIdle /\ SessionIdle /\ RestIdle
    /\ \E d \in SUBSET Ids : store \in [d -> Blobs]
    /\ cput = EmptyStore
    /\ cres = NoResult
    /\ cachedPdfIds \in SUBSET (DOMAIN store)
    /\ isDownloadingPdf = [i \in Ids |-> FALSE]
    /\ savedPapers = <<>>
    /\ papers = Catalogue
    /\ dl = [i \in Ids |-> IdleTask]
    /\ del = [i \in Ids |-> "idle"]
    /\ loadpc = "done"
    /\ epc = "idle"
    /\ ecaller = "none"
    /\ ein = <<>>
    /\ ecached = {}
    /\ eget = <<>>
    /\ eout = <<>>

EnrichNext ==
    \/ \E list \in {papers, savedPapers} : ChatEnrich(list)
    \/ SynthesisEnrich
    \/ \E k \in 1..Len(papers) : AnalysisEnrich(papers[k])
    \/ WriteEnrich
    \/ \E fault \in BOOLEAN : EnrichStep(fault)
    \/ EnrichFinish
    \/ \E paper \in Shown : ToggleSavePaper(paper)
    \/ \E id \in Ids, confirmed \in BOOLEAN : HandleDeletePdf(id, confirmed)
    \/ \E id \in Ids, fault \in BOOLEAN : HandleDeletePdfDone(id, fault)

EnrichSpec == EnrichInit /\ [][EnrichNext]_vars

\* The chat while the papers shown and the library change: the search has
\* answered and the PDF of every paper is cached.
ChatInit ==
    /\ GatewayIdle /\ ExtractIdle /\ SessionIdle /\ RestIdle
    /\ store = [i \in Ids |-> Pdf51]
    /\ cput = EmptyStore
    /\ cres = NoResult
    /\ cachedPdfIds = Ids
    /\ isDownloadingPdf = [i \in Ids |-> FALSE]
    /\ savedPapers = <<>>
    /\ papers = Catalogue
    /\ dl = [i \in Ids |-> IdleTask]
    /\ del = [i \in Ids |-> "idle"]
    /\ loadpc = "done"
    /\ epc = "idle"
    /\ ecaller = "none"
    /\ ein = <<>>
    /\ ecached = {}
    /\ eget = <<>>
    /\ eout = <<>>

ChatNext ==
    \/ \E q \in ChatInputs, list \in {papers, savedPapers} :
          HandleChatSubmitStart(q, list)
    \/ \E ok \in BOOLEAN, faults \in SUBSET Ids : HandleChatSubmitDone(ok, faults)
    \/ \E result \in {<<>>, Catalogue} : HandleSearch(result)
    \/ \E paper \in Shown : ToggleSavePaper(paper)

ChatSpec == ChatInit /\ [][ChatNext]_vars

----------------------------------------------------------------------------
\* Claims about the gateway (checked under Spec).

Count(log, e) == Cardinality({i \in 1..Len(log) : log[i] = e})

Contacted(e) == Count(glog, e) > 0

ProbeFailed == gprobe \in {"notok", "reject"}

OllamaFailed == gAans.kind \in {"reject", "http", "badjson", "nomessage"}

GeminiFailed == gBans.kind \in {"reject", "http", "badjson", "noparts"}

OllamaErrors == {"ollamaFetch", "ollamaHttp", "ollamaParse"}

GeminiErrors == {"geminiFetch", "geminiHttp", "geminiParse"}

\* C1: in auto mode the first network contact of a call is the probe of
\* backend A; when the probe answers ok the request goes to backend A next;
\* backend B is contacted only after the probe failed or the request to A
\* failed, and only with a Gemini key configured.
C1_AutoProbesAThenFallsBack ==
    gmode = "auto" =>
        /\ glog # <<>> => glog[1] = "probeA"
        /\ gprobe = "ok" =>
              \/ gpc = "sendA" /\ glog = <<"probeA">>
              \/ Len(glog) >= 2 /\ glog[2] = "reqA"
        /\ (gpc = "sendB" \/ Contacted("reqB")) =>
              /\ ProbeFailed \/ OllamaFailed
              /\ envKey \/ viteKey
        /\ ProbeFailed => ~Contacted("reqA")

C1_Witness ==
    /\ gmode = "auto"
    /\ glog = <<"probeA", "reqA", "reqB">>
    /\ gprobe = "ok"
    /\ OllamaFailed

\* C2 as stated: in auto mode, with the probe of A failed and a key for B
\* configured, the call returns the answer of backend B and does not raise.
C2_Original ==
    (gmode = "auto" /\ gpc = "done" /\ ProbeFailed /\ (envKey \/ viteKey)) =>
        /\ gstatus = "returned"
        /\ gvalue = gBans.text

\* C2 amended: in auto mode, with the probe of A failed and a key for B
\* configured, the call sends its one request to backend B and never to A;
\* it returns the answer of B without raising when B's request succeeds, and
\* raises the error of B when it fails.
C2_AutoFallbackReturnsB ==
    (gmode = "auto" /\ gpc = "done" /\ ProbeFailed /\ (envKey \/ viteKey)) =>
        /\ glog = <<"probeA", "reqB">>
        /\ ~GeminiFailed => gstatus = "returned" /\ gvalue = gBans.text
        /\ GeminiFailed => gstatus = "raised" /\ gerror \in GeminiErrors

C2_Witness ==
    /\ gmode = "auto" /\ gpc = "done" /\ ProbeFailed /\ ~envKey /\ viteKey
    /\ gBans.kind = "text" /\ gBans.text # <<>>
    /\ gstatus = "returned" /\ gvalue = gBans.text

\* C3: in auto mode without any Gemini key no request is ever sent to backend
\* B, and a call whose probe of A failed or whose request to A failed ends by
\* raising the no-service error.
C3_NoServiceRaised ==
    (gmode = "auto" /\ ~envKey /\ ~viteKey) =>
        /\ gpc # "sendB"
        /\ ~Contacted("reqB")
        /\ (ProbeFailed \/ OllamaFailed) =>
              /\ gpc = "done"
              /\ gstatus = "raised"
              /\ gerror = "noService"

C3_Witness ==
    /\ gmode = "auto" /\ ~envKey /\ ~viteKey
    /\ gprobe = "ok" /\ OllamaFailed
    /\ gstatus = "raised" /\ gerror = "noService"

\* C4: generateAIResponse never returns the empty string: a call that
\* returns, returns a non-empty string.
C4_NeverReturnsEmpty == gstatus = "returned" => gvalue # <<>>

----------------------------------------------------------------------------
\* Claims about text extraction (checked under ExtractSpec).

\* The steps of the loop and the function ExtractTextFromPdf agree.
ExtractStepsAgree == xpc = "done" => xresult = ExtractTextFromPdf(xpdf)

\* C8: extraction asks for the pages 1, 2, 3, ... in this order and never for
\* more than 15 of them; on a PDF that loads and none of whose pages fails it
\* processes exactly min(numPages, 15) pages, 15 of them when the PDF has
\* more, and the text returned holds one segment for each of them, in order.
C8_First15PagesInOrder ==
    /\ \A k \in 1..Len(xvisited) : xvisited[k] = k
    /\ Len(xvisited) <= 15
    /\ Len(xvisited) <= xpdf.numPages
    /\ (xpc = "done" /\ xpdf.loads /\ xpdf.failAt = 0) =>
          /\ Len(xvisited) = (IF xpdf.numPages > 15 THEN 15 ELSE xpdf.numPages)
          /\ Len(xresult) = Len(xvisited)
          /\ \A k \in 1..Len(xresult) : xresult[k].page = k

C8_Witness ==
    /\ xpc = "done" /\ xpdf.loads /\ xpdf.failAt = 0
    /\ xpdf.numPages > 15
    /\ Len(xvisited) = 15
    /\ Len(xresult) = 15

\* C9: when the document does not load, or one of the pages processed fails,
\* extraction returns the empty string and does not raise; the text of the
\* pages read before the failure is dropped.
C9_FailureReturnsEmpty ==
    /\ xstatus # "raised"
    /\ (xpc = "done" /\ ~xpdf.loads) => (xstatus = "returned" /\ xresult = <<>>)
    /\ (xpc = "done" /\ xpdf.loads /\ xpdf.failAt >= 1
          /\ xpdf.failAt <= xpdf.numPages /\ xpdf.failAt <= 15) =>
          (xstatus = "returned" /\ xresult = <<>>)

C9_Witness ==
    /\ xpc = "done" /\ xpdf.loads /\ xpdf.failAt = 3
    /\ Len(xvisited) = 3
    /\ StrLen(xtext) > 0
    /\ xstatus = "returned" /\ xresult = <<>>

----------------------------------------------------------------------------
\* Claims about the PDF cache (checked under CacheSpec and AppSpec).

\* What a get of id has to answer after the saves and deletes so far.
LastSaved(id) ==
    IF id \in DOMAIN cput THEN [kind |-> "blob", blob |-> cput[id]]
    ELSE [kind |-> "null", blob |-> CorruptPdf]

\* C6: after any sequence of saves, gets and deletes, a get of an id answers
\* the blob of the last save of this id that no delete followed, and null
\* when there is none; a get is rejected only when the IndexedDB request
\* itself failed, never because the id is missing.
C6_CacheIsKeyValueMap ==
    /\ \A id \in Keys : GetPdfFromCache(store, id) = LastSaved(id)
    /\ cres.op = "get" =>
          /\ cres.res.kind = "reject" <=> cres.fault
          /\ ~cres.fault => cres.res = LastSaved(cres.id)

C6_Witness ==
    /\ cres.op = "get" /\ ~cres.fault /\ cres.id = 1
    /\ cres.res.kind = "null"
    /\ 2 \in DOMAIN store /\ store[2] = Pdf51

\* C7: a step takes an id out of the store only when it is the end of
\* handleDeletePdf(id), which the user confirmed; a step puts a blob under an
\* id only when it is the savePdfToCache of a download of this id whose fetch
\* succeeded, and the blob is the one fetched; handleDeletePdf waits for the
\* delete only after a confirmation. No other step (search, enrichment, chat,
\* analysis, save or un-save, reload, a download that fails) changes the store.
C7_StoreChangesOnlyByDownloadAndDelete ==
    [][\A id \in Ids :
          /\ (id \in DOMAIN store /\ id \notin DOMAIN store') =>
                (del[id] = "deleting" /\ HandleDeletePdfDone(id, FALSE))
          /\ (id \in DOMAIN store' /\
                (id \notin DOMAIN store \/ store[id] # store'[id])) =>
                /\ dl[id].pc = "save"
                /\ store'[id] = dl[id].blob
                /\ DownloadSave(id, FALSE)
          /\ (del[id] # "deleting" /\ del'[id] = "deleting") =>
                HandleDeletePdf(id, TRUE)
      ]_vars

C7_Witness ==
    /\ 1 \in DOMAIN store
    /\ ~IsSaved(1)
    /\ loadpc = "loading"
    /\ cachedPdfIds = {}
    /\ papers = <<>>

----------------------------------------------------------------------------
\* Claims about enrichment (checked under EnrichSpec).

\* C10: for each paper the call is done with: when its id is in the
\* cachedPdfIds the call sees and it carries no fullText, the blob is asked of
\* the cache, and the paper returned is the paper with the extracted text as
\* fullText when a blob came and its text has more than 50 characters, and
\* the paper unchanged otherwise; in every other case the cache is not asked
\* and the paper is returned unchanged.
C10_EnrichAttachesLongTextOnly ==
    \A k \in 1..Len(eout) :
        LET p == ein[k]
            g == eget[k]
        IN  IF p.id \in ecached /\ p.fullText = <<>>
            THEN /\ g.kind \in {"blob", "null", "reject"}
                 /\ IF g.kind = "blob" /\ StrLen(ExtractTextFromPdf(g.blob)) > 50
                    THEN eout[k] = [p EXCEPT !.fullText = ExtractTextFromPdf(g.blob)]
                    ELSE eout[k] = p
            ELSE g.kind = "skip" /\ eout[k] = p

C10_Witness ==
    /\ epc = "run" /\ Len(ein) = 1 /\ Len(eout) = 1
    /\ ein[1].id \in ecached /\ ein[1].fullText = <<>>
    /\ eget[1].kind = "blob" /\ eget[1].blob = Pdf51
    /\ StrLen(eout[1].fullText) = 51

\* Without its fullText a paper is its id, title, authors, abstract and pdfUrl.
SansFullText(p) == [p EXCEPT !.fullText = <<>>]

----------------------------------------------------------------------------
\* Claims about the prompt builders (checked under PromptSpec).

\* The papers a call has written into its prompt: per paper its place n in
\* the argument and the content the prompt carries for it.
EntriesOf(b) ==
    CASE b.fn = "analysis" ->
            <<[n |-> 1,
               content |-> SubSeq(b.out[2].content, 2,
                                  Len(b.out[2].content) - 1)]>>
      [] b.fn = "synthesis" -> b.out[2].content[3].papers
      [] b.fn = "chat" -> b.out[1].content[1].papers
      [] b.fn = "review" -> b.out[2].content[3].papers
      [] OTHER -> <<>>

FullTextMarkers == {"(Tam Metin Icerigi Mevcut - Ilk Kisim):\n", "(Tam Metin):\n"}

\* Content c is the first n characters of the fullText of p after a marker
\* of full text.
IsFullTextContent(c, p, n) ==
    /\ Len(c) >= 2
    /\ c[1].lit \in FullTextMarkers
    /\ c[2] = TextPiece(Substring(p.fullText, n))
    /\ \A k \in 1..Len(c) : c[k].abstract = 0

\* Content c is the abstract of p, whole, with at most a marker before it.
IsAbstractContent(c, p) ==
    /\ c \in {<<AbstractOf(p)>>, <<Lit("(Ozet):\n"), AbstractOf(p)>>}

\* C12 as the spec has it: every call (field extraction, synthesis, chat,
\* literature review) writes for a paper with a fullText the first 10,000
\* characters of it after a full-text marker, and for a paper without one
\* its abstract.
C12_Original ==
    \A k \in 1..Len(EntriesOf(built)) :
        LET e == EntriesOf(built)[k]
            p == built.papers[e.n]
        IN  IF p.fullText # <<>> THEN IsFullTextContent(e.content, p, 10000)
            ELSE IsAbstractContent(e.content, p)

\* C12, amended: synthesis, chat and literature review write for a paper
\* whose fullText has more than 200 characters the first 10,000 characters of
\* it, after the full-text marker and before "...", and for every other
\* paper its abstract after the abstract marker; field extraction writes for
\* a paper with a fullText the first 5,000 characters of it after its
\* full-text marker, and for a paper without one the abstract alone.
C12_ContentSelection ==
    \A k \in 1..Len(EntriesOf(built)) :
        LET e == EntriesOf(built)[k]
            p == built.papers[e.n]
        IN  IF built.fn = "analysis"
            THEN IF p.fullText # <<>>
                 THEN /\ IsFullTextContent(e.content, p, 5000)
                      /\ Len(e.content) = 2
                 ELSE e.content = <<AbstractOf(p)>>
            ELSE IF p.fullText # <<>> /\ StrLen(p.fullText) > 200
                 THEN /\ IsFullTextContent(e.content, p, 10000)
                      /\ e.content[3] = Lit("...") /\ Len(e.content) = 3
                 ELSE e.content = <<Lit("(Ozet):\n"), AbstractOf(p)>>

C12_Witness ==
    /\ built.fn = "synthesis"
    /\ Len(built.papers) = 2
    /\ StrLen(built.papers[2].fullText) = 10001
    /\ StrLen(EntriesOf(built)[2].content[2].text) = 10000
    /\ EntriesOf(built)[1].content[2] = AbstractOf(built.papers[1])

\* C14: the messages of chatWithPapers(query, papers, history) are: first one
\* system message, made for this call from the first 5 papers at most, in
\* their order; then the messages of history that are not system messages,
\* in their order; last the user message with the query. No other message
\* has the role system.
C14_ChatMessageSequence ==
    built.fn = "chat" =>
        LET out == built.out
            context == out[1].content[1].papers
            kept == SelectSeq(built.history, LAMBDA m : m.role # "system")
        IN  /\ Len(out) = Len(kept) + 2
            /\ out[1].role = "system"
            /\ out[1].content[1].lit = "chat" /\ out[1].content[1].n = 0
            /\ Len(context) = Min(5, Len(built.papers))
            /\ \A k \in 1..Len(context) :
                  /\ context[k].n = k
                  /\ context[k].id = built.papers[k].id
                  /\ context[k].title = built.papers[k].title
            /\ \A k \in 2..Len(out) : out[k].role # "system"
            /\ \A k \in 1..Len(kept) : out[k + 1] = kept[k]
            /\ out[Len(out)] = Msg("user", <<Lit(built.query)>>)

C14_Witness ==
    /\ built.fn = "chat"
    /\ Len(built.papers) = 6
    /\ Len(built.out[1].content[1].papers) = 5
    /\ Len(built.history) = 3
    /\ built.history[1].role = "user"
    /\ built.history[2].role = "system"
    /\ built.history[3].role = "assistant"
    /\ Len(built.out) = 4
    /\ built.out[3] = built.history[3]

\* C15: generateLiteratureReview(topic, papers) writes out the first K
\* papers, K the smaller of the number of papers and of 6 when some paper of
\* the argument carries a fullText, 15 when none does; the i-th source it
\* writes carries the token ref(i) and the id, title and authors of the i-th
\* paper of the argument, so the tokens offered are ref1..refK, each of a
\* paper of the argument.
C15_ReviewReferenceTokens ==
    built.fn = "review" =>
        LET sources == built.out[2].content[3].papers
            anyFullText ==
                \E k \in 1..Len(built.papers) : built.papers[k].fullText # <<>>
            K == Min(Len(built.papers), IF anyFullText THEN 6 ELSE 15)
        IN  /\ Len(sources) = K
            /\ {sources[i].n : i \in 1..Len(sources)} = 1..K
            /\ \A i \in 1..Len(sources) :
                  /\ sources[i].n = i
                  /\ sources[i].id = built.papers[i].id
                  /\ sources[i].title = built.papers[i].title
                  /\ sources[i].authors = built.papers[i].authors

C15_Witness ==
    /\ built.fn = "review"
    /\ Len(built.papers) = 7
    /\ built.papers[7].fullText # <<>>
    /\ Len(built.out[2].content[3].papers) = 6
    /\ built.out[2].content[3].papers[6].n = 6

\* C16: the contents sendGeminiRequest(messages) sends are the messages
\* that are not system messages, in their order, an assistant message with
\* the role model and a user message with the role user; when messages has a
\* system message, its content is in the request, before the content of the
\* first user turn.
C16_GeminiRoleMapping ==
    built.fn = "gemini" =>
        LET messages == built.history
            contents == built.out
            kept == SelectSeq(messages, LAMBDA m : m.role # "system")
            users == {k \in 1..Len(kept) : kept[k].role = "user"}
            merged(k) == <<Lit("[SYSTEM: ")>> \o FirstSystem(messages).content
                            \o <<Lit("]\n\n")>> \o kept[k].content
        IN  /\ Len(contents) = Len(kept)
            /\ \A k \in 1..Len(kept) :
                  /\ contents[k].role =
                        (IF kept[k].role = "assistant" THEN "model" ELSE "user")
                  /\ IF HasSystem(messages)
                     THEN contents[k].text \in {kept[k].content, merged(k)}
                     ELSE contents[k].text = kept[k].content
            /\ HasSystem(messages) =>
                  /\ users # {}
                  /\ \A k \in 1..Len(kept) :
                        contents[k].text = merged(k) <=>
                            (k \in users /\ \A j \in users : k <= j)

----------------------------------------------------------------------------
\* Claims about the callers of the enrichment (checked under CallerSpec).

\* The most papers a caller may hand to the enrichment.
EnrichCap(caller) ==
    CASE caller = "chat" -> 5
      [] caller = "synthesis" -> 6
      [] caller = "write" -> 6
      [] caller = "analysis" -> 1
      [] OTHER -> 0

\* C13: the list a caller hands to enrichPapersWithPdfContent has at most 6
\* papers for synthesis and for literature-review generation, at most 5 for
\* chat and exactly 1 for single-field analysis, whatever the number of
\* search results and of saved papers.
C13_CallersBoundEnrichInput ==
    epc = "run" =>
        /\ Len(ein) <= EnrichCap(ecaller)
        /\ ecaller = "analysis" => Len(ein) = 1

\* The query of a call is blank: nothing is left of it after trim().
BlankQuery(call) == Trim(ToLowerCase(call.query)) = <<>>

\* C17: searchPapers never throws.  Every call resolves to a list of at
\* most `limit` papers and a total that is a natural number; an answer of
\* the API that is an error (rejected fetch, non-OK status, a body that is
\* no JSON or not of the shape read) gives the page of the local samples,
\* which is empty from offset 45 on; a page asked of the API past the end
\* of its ranking is empty; and a blank query gives no papers and total 0
\* without a request to the API.
C17_SearchNeverThrows ==
    \A k \in DOMAIN scalls :
        LET call == scalls[k] IN
        /\ call.status = "resolved"
        /\ Len(call.papers) <= call.limit
        /\ call.total \in Nat
        /\ call.answer \in Failures =>
              /\ call.mode = "fallback"
              /\ call.offset >= TotalMockResults => call.papers = <<>>
        /\ call.answer = "ok" =>
              /\ call.mode = "live"
              /\ call.offset >= Len(Ranking(backend)) => call.papers = <<>>
        /\ BlankQuery(call) =>
              /\ call.papers = <<>>
              /\ call.total = 0
              /\ ~call.fetched

\* A call answered with a body that is no JSON gave the last paper of the
\* samples, and the call for the page after it, answered with a non-OK
\* status, gave the empty list and the total of 45.
C17_Witness ==
    /\ Len(scalls) = 2
    /\ scalls[1].answer = "badjson"
    /\ scalls[1].offset = TotalMockResults - 1
    /\ Len(scalls[1].papers) = 1
    /\ scalls[2].answer = "status"
    /\ scalls[2].offset >= TotalMockResults
    /\ scalls[2].status = "resolved"
    /\ scalls[2].papers = <<>>
    /\ scalls[2].total = TotalMockResults

\* The list of the 45 samples a failed call for the query slices, as the
\* build makes it when Math.random gives rnd.
FixedList(q, rnd) ==
    Fallback(svariant, q, Trim(ToLowerCase(q)), 0, TotalMockResults, rnd).papers

\* C18: in fallback mode the result is a page of one fixed list of 45
\* papers.  Every failed call with a non-blank query reports total = 45;
\* when searchPapers(q, 0, 10) and then searchPapers(q, 10, 10) both fall
\* back, they return items 1-10 and 11-20 of the same list; and a failed
\* call made again with the same query, offset and limit returns the same
\* papers and the same total.
C18_FallbackDeterministic ==
    /\ \A k \in DOMAIN scalls :
          scalls[k].mode = "fallback" => scalls[k].total = TotalMockResults
    /\ (/\ Len(scalls) = 2
        /\ scalls[1].mode = "fallback" /\ scalls[2].mode = "fallback"
        /\ scalls[1].offset = 0 /\ scalls[1].limit = PageSize
        /\ scalls[2].offset = PageSize /\ scalls[2].limit = PageSize)
       => \E rnd \in Draws(svariant) :
             /\ scalls[1].papers = SubSeq(FixedList(scalls[1].query, rnd),
                                          1, PageSize)
             /\ scalls[2].papers = SubSeq(FixedList(scalls[1].query, rnd),
                                          PageSize + 1, 2 * PageSize)
    /\ (/\ Len(scalls) = 2
        /\ scalls[1].mode = "fallback" /\ scalls[2].mode = "fallback"
        /\ scalls[1].offset = scalls[2].offset)
       => /\ scalls[2].papers = scalls[1].papers
          /\ scalls[2].total = scalls[1].total

IdsOf(list) == {list[i].id : i \in DOMAIN list}

\* What a call for the query can draw on has at least 20 matches: the API
\* when it answers, the 45 samples when it does not.
HasTwoPages(call) ==
    IF call.mode = "fallback" THEN TotalMockResults >= 2 * PageSize
    ELSE Len(Ranking(backend)) >= 2 * PageSize

\* C19: for the query of the search box, whatever the API answers to the
\* two requests, the papers of searchPapers(q, 0, 10) and those of
\* searchPapers(q, 10, 10) share no id when each call draws on at least 20
\* matches; and the papers the App shows never hold two papers of the same
\* id, whatever searches and loads of further pages have run and ended.
C19_NoRepeatedIds ==
    /\ \A first \in Calls(query, 0, PageSize),
          second \in Calls(query, PageSize, PageSize) :
              (HasTwoPages(first) /\ HasTwoPages(second))
                  => IdsOf(first.papers) \cap IdsOf(second.papers) = {}
    /\ \A i, j \in DOMAIN papers : papers[i].id = papers[j].id => i = j

\* More than 10 papers are shown, papers of the API and papers of the
\* samples among them; the first page of this backend holds fewer than 10
\* papers, so the page loaded after it overlaps it.  No request is in
\* flight.
C19_Witness ==
    /\ Len(papers) > PageSize
    /\ \E i, j \in DOMAIN papers :
          papers[i].id.src = "s2" /\ papers[j].id.src = "gen"
    /\ backend = "mixed"
    /\ stasks = {} /\ ltasks = {}
    /\ ~isSearching /\ ~isLoadingMore

\* The value of the slot (id, field), '' while the paper has no record.
SlotValue(an, id, field) == AnalysisOf(an, id)[field]

\* C20: the completion of an analysis writes its own slot only.  In every
\* step in which a call of triggerSingleAnalysis writes its result, the
\* value and the loading status (the spinner of the cell) of every other
\* field of the paper and of every field of every other paper are after the
\* step what they were before it.
C20_CompletionWritesOwnSlot ==
    [][\A task \in atasks, result \in Results :
          AnalysisDone(task, result) =>
              \A id \in DOMAIN analyses \cup {task.id}, field \in Fields :
                  (id # task.id \/ field # task.field) =>
                      /\ SlotValue(analyses', id, field)
                             = SlotValue(analyses, id, field)
                      /\ CellLoading(analyses', id, field)
                             <=> CellLoading(analyses, id, field)]_vars

\* C21: a field analysis that fails (no connection at the probe, or the
\* request raising) leaves an error or a placeholder on the record of the
\* paper, and the record stays in isLoading = true only while a request of
\* the paper is still under way: a paper whose calls have all ended is not
\* loading, and a field left undefined belongs to a call under way.
C21_FailureLeavesNoLoading ==
    \A id \in DOMAIN analyses :
        /\ analyses[id].isLoading => \E task \in atasks : task.id = id
        /\ \A field \in Fields :
              analyses[id][field] = Undefined =>
                  \E task \in atasks : task.id = id /\ task.field = field

----------------------------------------------------------------------------
\* C22: when savePdfToCache or deletePdfFromCache rejects, the step of
\* handleDownloadPdf / handleDeletePdf that receives the rejection leaves
\* cachedPdfIds and savedPapers as they were, and whenever handleDownloadPdf
\* finishes, after a stored PDF, a rejected save or two failed fetches,
\* isDownloadingPdf of that paper is false. A reload of the page ends the
\* handlers under way and is no step of theirs.
C22_RejectedCacheLeavesState ==
    [][\A id \in DOMAIN dl :
          /\ (/\ dl[id].pc = "save"
              /\ dl'[id].pc = "idle"
              /\ cres'.op = "put" /\ cres'.id = id /\ cres'.fault
              /\ ~Reload)
                => cachedPdfIds' = cachedPdfIds /\ savedPapers' = savedPapers
          /\ (/\ del[id] = "deleting"
              /\ del'[id] = "idle"
              /\ cres'.op = "delete" /\ cres'.id = id /\ cres'.fault
              /\ ~Reload)
                => cachedPdfIds' = cachedPdfIds /\ savedPapers' = savedPapers
          /\ (dl[id].pc # "idle" /\ dl'[id].pc = "idle")
                => ~isDownloadingPdf'[id]]_vars

\* A download whose save was rejected has finished: the paper is not taken
\* as cached and its spinner is off.
C22_Witness ==
    /\ cres.op = "put" /\ cres.fault
    /\ dl[cres.id].pc = "idle"
    /\ ~isDownloadingPdf[cres.id]
    /\ cres.id \notin cachedPdfIds
    /\ savedPapers # <<>>

----------------------------------------------------------------------------
\* C23: over any sequence of chat, synthesis, analysis and write requests,
\* extractTextFromPdf does not run again for a paper whose text it has
\* extracted (a text long enough to be attached) earlier in the session.
C23_ExtractsOncePerPaper ==
    \A id \in Ids : xruns[id] # "again"

----------------------------------------------------------------------------
\* The ids of the papers a system message of the chat lists, in order.
ContextIds(msg) ==
    [i \in 1..Len(msg.content[1].papers) |-> msg.content[1].papers[i].id]

\* The ids of a list of papers, in order.
IdSequence(list) == [i \in 1..Len(list) |-> list[i].id]

\* C24: the stored chatHistory holds user and assistant messages only, and
\* every chat request carries exactly one system message, its first, which
\* lists the first five papers of the view (search results or library) as
\* it was when the question was submitted.
C24_FreshSystemMessage ==
    /\ [](\A k \in 1..Len(chatHistory) :
              chatHistory[k].role \in {"user", "assistant"})
    /\ [][ctask.pc = "idle" /\ ctask'.pc = "run"
             => ctask'.papers \in {Slice(papers, 5), Slice(savedPapers, 5)}]_vars
    /\ [][ctask.pc = "run" /\ ctask'.pc = "idle"
             => /\ csent' # <<>>
                /\ csent'[1].role = "system"
                /\ \A k \in 2..Len(csent') : csent'[k].role # "system"
                /\ ContextIds(csent'[1]) = IdSequence(ctask.papers)]_vars

\* A second question has been answered: its request carried the history of
\* the first and the papers of the view.
C24_Witness ==
    /\ Len(chatHistory) = 4
    /\ ctask.pc = "idle"
    /\ Len(csent) > 2
    /\ csent[1].role = "system"
    /\ ContextIds(csent[1]) # <<>>

----------------------------------------------------------------------------
\* C29: the messages of a chat request hold the question just submitted
\* once more than the history before it did, and a submission adds to
\* chatHistory one user message, then one assistant message: the answer,
\* the apology of a failed request, or the notice when the view has no
\* paper.
C29_UserTurnSentOnce ==
    [][/\ (ctask.pc = "run" /\ ctask'.pc = "idle")
            => /\ Count(csent', UserMsg(ctask.q))
                    = Count(ctask.history, UserMsg(ctask.q)) + 1
               /\ Len(chatHistory') = Len(chatHistory) + 1
               /\ SubSeq(chatHistory', 1, Len(chatHistory)) = chatHistory
               /\ chatHistory'[Len(chatHistory')].role = "assistant"
       /\ (ctask.pc = "idle" /\ ctask'.pc = "run")
            => chatHistory' = Append(chatHistory, UserMsg(ctask'.q))
       /\ (Len(chatHistory') = Len(chatHistory) + 2)
            => /\ chatHistory'[Len(chatHistory) + 1].role = "user"
               /\ chatHistory'[Len(chatHistory) + 2] = NoPapersNotice]_vars

----------------------------------------------------------------------------
\* C25: in the forced modes nothing falls back. With the preference
\* 'ollama' a call contacts backend A alone, with one request and no probe,
\* and raises the error of A when the request fails; with the preference
\* 'gemini' a call never contacts backend A, and with no Gemini key it
\* raises the missing-credential error without any contact.
C25_ForcedModesNoFallback ==
    /\ gmode = "ollama" =>
          /\ gpc \notin {"probe", "sendB"}
          /\ ~Contacted("probeA") /\ ~Contacted("reqB")
          /\ Count(glog, "reqA") <= 1
          /\ gpc = "done" => glog = <<"reqA">>
          /\ OllamaFailed =>
                gpc = "done" /\ gstatus = "raised" /\ gerror \in OllamaErrors
    /\ gmode = "gemini" =>
          /\ gpc \notin {"probe", "sendA"}
          /\ ~Contacted("probeA") /\ ~Contacted("reqA")
          /\ (~envKey /\ ~viteKey) =>
                /\ glog = <<>>
                /\ gpc = "done" /\ gstatus = "raised"
                /\ gerror = "geminiKeyMissing"

\* A forced call to backend A has failed with a key for backend B
\* configured: the error of A is raised and B was left alone.
C25_Witness ==
    /\ gmode = "ollama" /\ gpc = "done"
    /\ envKey
    /\ gAans.kind = "http"
    /\ gstatus = "raised" /\ gerror = "ollamaHttp"
    /\ glog = <<"reqA">>

----------------------------------------------------------------------------
\* The key of the request URL of sendGeminiRequest is the module constant
\* GEMINI_API_KEY: process.env.GEMINI_API_KEY, or the empty string.
RequestCarriesKey == envKey

\* C26: a call sends a request to backend B only in a configuration where
\* checkAIConnection reports gemini = true, and the request carries a
\* non-empty credential.
C26_ProbeAndDispatchAgree ==
    (gpc = "sendB" \/ Contacted("reqB")) => GeminiStatus /\ RequestCarriesKey

----------------------------------------------------------------------------
\* No handleDownloadPdf and no handleDeletePdf is under way.
HandlersIdle == \A i \in Ids : dl[i].pc = "idle" /\ del[i] = "idle"

----------------------------------------------------------------------------
\* C28: when handleWritePaper writes the enriched library back, the papers
\* of the library are those saved at that moment, whatever was saved or
\* un-saved while the enrichment ran, and no paper of the library carries
\* the fullText of a PDF that is no longer in the cache.
C28_WriteBackLosesNoUpdate ==
    [][(epc = "run" /\ ecaller = "write" /\ epc' = "idle")
          => /\ IdSequence(savedPapers') = IdSequence(savedPapers)
             /\ \A k \in 1..Len(savedPapers') :
                   savedPapers'[k].fullText # <<>>
                      => savedPapers'[k].id \in GetCachedPdfIds(store')]_vars

----------------------------------------------------------------------------
\* C30: the response of a handleSearch or handleLoadMore request that was
\* in flight when a newer search was issued, or the search was cleared,
\* changes neither papers nor totalResults, so that these hold the result
\* of the query issued last once every request has completed.
C30_StaleResponseIgnored ==
    [][\A task \in stasks \cup ltasks :
          (task.stale /\ task \notin stasks' \cup ltasks')
             => papers' = papers /\ totalResults' = totalResults]_vars

====
